---- MODULE Spec2Model ----
(***************************************************************************)
(* Model of the HTML-to-record extraction and cross-table join pipeline of *)
(* the two scrapers (espn_stats_scraper.py, ufc_stats_scraper.py).         *)
(*                                                                         *)
(* Raw page text (cell text, header text, href attributes) is a sequence   *)
(* of one-character strings, so that the text functions are computed       *)
(* character by character.  Values stored in records are TLA+ strings      *)
(* (ToStr of the characters); Python's None is the reserved string NoneV,  *)
(* which no page text can spell.  A Python dict is a function on its keys. *)
(***************************************************************************)
EXTENDS Integers, Sequences, FiniteSets, TLC

VARIABLES
    pc,              \* position of scrape_complete_fighter
    stats_sections,  \* stats_data['stats_sections']: section -> payload
    fights,          \* history_data['fights']: list of Fight History Entries
    stats_table,     \* the table handed to _parse_stats_table
    stats_out,       \* its result
    hist_table,      \* the table handed to _parse_fight_history_table
    hist_out,        \* its result
    ufc_rows,        \* rows of class b-fight-details__table-row of a fighter page
    ufc_fights,      \* fighter_data['fights'] of UFCStatsScraper.scrape_fighter
    header_cells,    \* the thead th texts handed to _header_map
    hmap,            \* its result
    frac_text,       \* the text handed to _parse_stat_fraction
    frac_out,        \* its result
    id_url,          \* the url handed to _extract_id_from_url (given is FALSE for None)
    id_out,          \* its result
    date_text,       \* the text handed to _parse_schedule_date
    date_year,       \* the year handed to it
    date_out,        \* its result
    norm_text,       \* the th text handed to _normalize_header
    norm_out,        \* its result
    fotn_txt,        \* event_data['fight_of_the_night'] in crawl_all (<<>> for None and '')
    card_fights,     \* the fights of event_data['card_segments'], segment after segment
    sched_page,      \* the table.Table elements of the schedule page of one year
    sched_year,      \* the year handed to scrape_schedule_year
    allowed_leagues, \* self.allowed_leagues
    sched_events,    \* the events scrape_schedule_year returns
    crawl_events,    \* the events crawl_all goes on to process
    name_anchor,     \* a fighter link handed to the name resolution
    name_out,        \* the name resolved for it
    stats_page,      \* the div.ResponsiveTable boxes of a fighter stats page
    history_page,    \* the tables of a fighter history page
    ufc_doc,         \* the sections and tables of a UFC Stats fight page, in document order
    ufc_totals,      \* fight_data['totals'], the result of _extract_fight_stats
    stat_text,       \* the text of one stat cell given to _parse_percentage or _parse_time_control
    stat_out,        \* the integer returned for stat_text
    ledger,          \* completed_events, completed_fighters, failed_events and failed_fighters of one ESPN scraper
    jsonl,           \* the number of lines appended to events.jsonl and fighters.jsonl, per url
    crawl,           \* the position of crawl_all or retry_failed_items: the urls still to visit and the scrape made by the last step
    ufc_seen,        \* seen_fighters, seen_fights and seen_events of one run of the UFC Stats crawl_all
    ufc_jsonl,       \* the ids of the records appended to fighters.jsonl, fights.jsonl and events.jsonl, in order
    ufc_crawl,       \* the fighter urls listed, and the fighter and fight urls still to visit
    page_call,       \* one call of _get_page: max_retries, the loop counter, and the outcome of every GET issued
    page_result,     \* what the call returned: "document" or "None", "pending" while it runs
    raw_urls,        \* fighter_urls_raw of an event page, in the order the set is visited
    event_fighter_urls,\* event_data['fighter_urls']
    round_page,      \* the section.b-fight-details__section elements of a fight page
    existing_rounds, \* the rounds passed to _extract_sig_strikes_rounds
    rounds_out       \* the rounds that _extract_sig_strikes_rounds returns

vars == <<pc, stats_sections, fights, stats_table, stats_out, hist_table, hist_out,
          ufc_rows, ufc_fights, header_cells, hmap, frac_text, frac_out, id_url,
          id_out, date_text, date_year, date_out, norm_text, norm_out, fotn_txt,
          card_fights, sched_page, sched_year, allowed_leagues, sched_events,
          crawl_events, name_anchor, name_out, stats_page, history_page, ufc_doc,
          ufc_totals, stat_text, stat_out, ledger, jsonl, crawl, ufc_seen, ufc_jsonl,
          ufc_crawl, page_call, page_result, raw_urls, event_fighter_urls, round_page,
          existing_rounds, rounds_out>>

----------------------------------------------------------------------------
(* Python values *)

NoneV == "<None>"
NBSP == "nbsp"                    \* the character U+00A0
EmptyDict == [k \in {} |-> NoneV]

Truthy(v) == v # NoneV /\ v # ""
Get(d, k) == IF k \in DOMAIN d THEN d[k] ELSE NoneV
Put(d, k, v) == (k :> v) @@ d
PyStr(v) == IF v = NoneV THEN "None" ELSE v

RECURSIVE ToStr(_)
ToStr(t) == IF t = <<>> THEN "" ELSE t[1] \o ToStr(Tail(t))

----------------------------------------------------------------------------
(* Text primitives *)

IsSpace(c) == c \in {" ", "\t", "\n", NBSP}
IsDigit(c) == c \in {"0", "1", "2", "3", "4", "5", "6", "7", "8", "9"}

UpperLetters == <<"A","B","C","D","E","F","G","H","I","J","K","L","M",
                  "N","O","P","Q","R","S","T","U","V","W","X","Y","Z">>
LowerLetters == <<"a","b","c","d","e","f","g","h","i","j","k","l","m",
                  "n","o","p","q","r","s","t","u","v","w","x","y","z">>

LowerChar(c) ==
    IF \E i \in DOMAIN UpperLetters : UpperLetters[i] = c
    THEN LowerLetters[CHOOSE i \in DOMAIN UpperLetters : UpperLetters[i] = c]
    ELSE c
UpperChar(c) ==
    IF \E i \in DOMAIN LowerLetters : LowerLetters[i] = c
    THEN UpperLetters[CHOOSE i \in DOMAIN LowerLetters : LowerLetters[i] = c]
    ELSE c
Lower(t) == [i \in DOMAIN t |-> LowerChar(t[i])]
Upper(t) == [i \in DOMAIN t |-> UpperChar(t[i])]

RECURSIVE LStrip(_)
LStrip(t) == IF t # <<>> /\ IsSpace(t[1]) THEN LStrip(Tail(t)) ELSE t
RECURSIVE RStrip(_)
RStrip(t) ==
    IF t # <<>> /\ IsSpace(t[Len(t)]) THEN RStrip(SubSeq(t, 1, Len(t) - 1)) ELSE t
Strip(t) == RStrip(LStrip(t))

\* re.sub(r'\s+', ' ', t): every whitespace run becomes one space
RECURSIVE CollapseSpaces(_)
CollapseSpaces(t) ==
    IF t = <<>> THEN <<>>
    ELSE IF IsSpace(t[1])
         THEN <<" ">> \o CollapseSpaces(LStrip(t))
         ELSE <<t[1]>> \o CollapseSpaces(Tail(t))

CleanText(t) == IF t = <<>> THEN <<>> ELSE CollapseSpaces(Strip(t))

ReplaceNbsp(t) == [i \in DOMAIN t |-> IF t[i] = NBSP THEN " " ELSE t[i]]

\* the maximal run of digits at the start of t
RECURSIVE DigitRun(_)
DigitRun(t) ==
    IF t # <<>> /\ IsDigit(t[1]) THEN <<t[1]>> \o DigitRun(Tail(t)) ELSE <<>>

StartsWith(t, p) == Len(t) >= Len(p) /\ SubSeq(t, 1, Len(p)) = p
From(t, i) == SubSeq(t, i, Len(t))

Chars_id == <<"/", "i", "d", "/">>

\* variant: the rightmost "/id/" that a digit follows
ExtractIdFromUrlLast(url) ==
    LET hits == {i \in DOMAIN url :
                    /\ StartsWith(From(url, i), Chars_id)
                    /\ DigitRun(From(url, i + 4)) # <<>>}
    IN IF url = <<>> \/ hits = {} THEN <<>>
       ELSE DigitRun(From(url, (CHOOSE i \in hits : \A j \in hits : i >= j) + 4))

\* re.search(r'/id/(\d+)', url): the leftmost "/id/" that a digit follows
ExtractIdFromUrl(url) ==
    LET hits == {i \in DOMAIN url :
                    /\ StartsWith(From(url, i), Chars_id)
                    /\ DigitRun(From(url, i + 4)) # <<>>}
    IN IF url = <<>> \/ hits = {} THEN <<>>
       ELSE DigitRun(From(url, (CHOOSE i \in hits : \A j \in hits : i <= j) + 4))

BaseUrl == <<"h","t","t","p","s",":","/","/","w","w","w",".","e","s","p","n",".","c","o","m">>

HasScheme(href) == \E i \in DOMAIN href : StartsWith(From(href, i), <<":", "/", "/">>)

\* urljoin(self.base_url, href) for the href shapes of the model's pages:
\* an absolute URL, an absolute path, a relative path and the empty href
UrlJoin(href) ==
    IF href = <<>> THEN BaseUrl
    ELSE IF HasScheme(href) THEN href
    ELSE IF href[1] = "/" THEN BaseUrl \o href
    ELSE BaseUrl \o <<"/">> \o href

----------------------------------------------------------------------------
(* Page elements.                                                          *)
(* A cell (td) is [text, anchors]: its whole text and its <a> elements in  *)
(* document order, each [text, href, hasHref, gameLink].  A table is       *)
(* [hasHead, hasBody, headers, rows]: the th texts and the tbody rows,     *)
(* each row the sequence of its td cells.                                  *)

Anchor(text, href) == [text |-> text, href |-> href, hasHref |-> TRUE, gameLink |-> FALSE]
Cell(text) == [text |-> text, anchors |-> <<>>]
LinkCell(text, href) == [text |-> text, anchors |-> <<Anchor(text, href)>>]
Table(headers, rows) ==
    [hasHead |-> TRUE, hasBody |-> TRUE, headers |-> headers, rows |-> rows]

\* the sequences over S of length 0..n
SeqUpTo(S, n) == UNION {[1..k -> S] : k \in 0..n}

----------------------------------------------------------------------------
(* ESPNMMAScraper._parse_stats_table *)

Sections == <<"striking", "clinch", "ground">>
MetaKeys == {"date", "opponent", "opponent_url", "opponent_id",
             "event_url", "event_id", "result"}

\* th.get_text(strip=True).replace("\xa0", " ").strip()
StatsHeaderText(th) == ToStr(Strip(ReplaceNbsp(Strip(th))))

\* td_text: None for the empty cell and for "-"
TdText(td) ==
    LET s == ToStr(Strip(ReplaceNbsp(Strip(td.text))))
    IN IF s \in {"", "-"} THEN NoneV ELSE s

\* td.find("a", attrs={"data-game-link": True}) or td.find("a")
EventAnchorIndex(td) ==
    IF \E i \in DOMAIN td.anchors : td.anchors[i].gameLink
    THEN CHOOSE i \in DOMAIN td.anchors :
            /\ td.anchors[i].gameLink
            /\ \A j \in DOMAIN td.anchors : td.anchors[j].gameLink => i <= j
    ELSE IF td.anchors # <<>> THEN 1 ELSE 0

\* parse_event: <<href, event id>>
ParseEvent(td) ==
    LET i == EventAnchorIndex(td) IN
    IF i = 0 \/ ~td.anchors[i].hasHref \/ td.anchors[i].href = <<>>
    THEN <<NoneV, NoneV>>
    ELSE LET href == UrlJoin(td.anchors[i].href)
         IN <<ToStr(href), ToStr(ExtractIdFromUrl(href))>>

\* parse_opponent: <<name, href, opponent id>>
ParseOpponent(td) ==
    LET hasA == td.anchors # <<>>
        raw  == IF hasA THEN ToStr(Strip(td.anchors[1].text)) ELSE TdText(td)
        name == IF Truthy(raw) THEN raw ELSE NoneV
        hasH == hasA /\ td.anchors[1].hasHref /\ td.anchors[1].href # <<>>
        href == IF hasH THEN UrlJoin(td.anchors[1].href) ELSE <<>>
    IN <<name,
         IF hasH THEN ToStr(href) ELSE NoneV,
         IF hasH THEN ToStr(ExtractIdFromUrl(href)) ELSE NoneV>>

\* idx_to_header.get(i, f"col_{i}"), columns counted from 0 in the code
StatsCol(headers, n) ==
    IF n <= Len(headers) THEN StatsHeaderText(headers[n]) ELSE "col_" \o ToString(n - 1)

\* the row dict after the first n cells (lines 423-437)
RECURSIVE StatsRow(_, _, _)
StatsRow(headers, tds, n) ==
    IF n = 0 THEN EmptyDict
    ELSE LET row == StatsRow(headers, tds, n - 1)
             col == StatsCol(headers, n)
             td  == tds[n]
         IN CASE col = "Date" -> Put(row, "date", TdText(td))
              [] col = "Opponent" ->
                    LET o == ParseOpponent(td)
                    IN Put(Put(Put(row, "opponent", o[1]), "opponent_url", o[2]),
                           "opponent_id", o[3])
              [] col = "Event" ->
                    LET e == ParseEvent(td)
                    IN Put(Put(row, "event_url", e[1]), "event_id", e[2])
              [] col \in {"Res.", "Res"} -> Put(row, "result", TdText(td))
              [] OTHER -> Put(row, col, TdText(td))

CompositeKey(d) == PyStr(Get(d, "date")) \o "|" \o PyStr(Get(d, "opponent"))

\* join_key = str(row.get("event_id") or f"{row.get('date')}|{row.get('opponent')}")
\* variant: the composite key even when the row has an event_id
StatsJoinKeyComposite(row) == CompositeKey(row)
StatsJoinKey(row) ==
    IF Truthy(Get(row, "event_id")) THEN row["event_id"] ELSE CompositeKey(row)

StatsMetrics(row) == [k \in DOMAIN row \ MetaKeys |-> row[k]]
StatsMeta(row) == [k \in MetaKeys |-> Get(row, k)]

\* A dict whose iteration order matters is [order, items]: the keys in
\* insertion order and the mapping.  Assigning to a key that is already
\* there keeps its position.
EmptyPayload == [order |-> <<>>, items |-> EmptyDict]
InSeq(x, s) == \E i \in DOMAIN s : s[i] = x
\* variant: a key that is already there keeps its first value
PayloadPutFirst(out, key, val) ==
    IF InSeq(key, out.order) THEN out
    ELSE [order |-> Append(out.order, key), items |-> Put(out.items, key, val)]
PayloadPut(out, key, val) ==
    [order |-> IF InSeq(key, out.order) THEN out.order ELSE Append(out.order, key),
     items |-> Put(out.items, key, val)]

\* the loop over tbody rows (lines 418-447), after the first n rows
RECURSIVE StatsRows(_, _)
StatsRows(table, n) ==
    IF n = 0 THEN EmptyPayload
    ELSE LET out == StatsRows(table, n - 1)
             tds == table.rows[n]
             row == StatsRow(table.headers, tds, Len(tds))
         IN IF tds = <<>> THEN out
            ELSE PayloadPut(out, StatsJoinKey(row),
                            [meta |-> StatsMeta(row), metrics |-> StatsMetrics(row)])

ParseStatsTable(table) == StatsRows(table, Len(table.rows))

----------------------------------------------------------------------------
(* ESPNMMAScraper._normalize_header and _parse_fight_history_table *)

IsLowerLetter(c) == \E i \in DOMAIN LowerLetters : LowerLetters[i] = c
RECURSIVE KeepLetters(_)
KeepLetters(t) ==
    IF t = <<>> THEN <<>>
    ELSE IF IsLowerLetter(t[1]) THEN <<t[1]>> \o KeepLetters(Tail(t))
         ELSE KeepLetters(Tail(t))

HeaderSynonyms ==
    [date |-> "date", opponent |-> "opponent", res |-> "result", result |-> "result",
     decision |-> "method", method |-> "method", rnd |-> "round", round |-> "round",
     time |-> "time", event |-> "event"]

\* variant: punctuation and spaces are kept
NormalizeHeaderKeepPunct(text) ==
    LET t == ToStr(Lower(CleanText(text)))
    IN IF t \in DOMAIN HeaderSynonyms THEN HeaderSynonyms[t] ELSE t

NormalizeHeader(text) ==
    LET t == ToStr(KeepLetters(Lower(CleanText(text))))
    IN IF t \in DOMAIN HeaderSynonyms THEN HeaderSynonyms[t] ELSE t

RecognizedFields == {"date", "opponent", "result", "method", "round", "time", "event"}
CanonicalFields == RecognizedFields \cup {"opponent_url", "opponent_id", "event_url", "event_id"}
DefaultHistoryHeaders == <<"date", "opponent", "result", "method", "round", "time", "event">>

\* headers after the fallback of lines 1213-1218
HistoryHeaders(table) ==
    LET headers == [i \in DOMAIN table.headers |-> NormalizeHeader(table.headers[i])]
    IN IF Len(headers) < 3 THEN DefaultHistoryHeaders ELSE headers

\* td.find('a', href=True): index of the first anchor that has an href, or 0
HrefAnchorIndex(td) ==
    IF \E i \in DOMAIN td.anchors : td.anchors[i].hasHref
    THEN CHOOSE i \in DOMAIN td.anchors :
            /\ td.anchors[i].hasHref
            /\ \A j \in DOMAIN td.anchors : td.anchors[j].hasHref => i <= j
    ELSE 0

\* the entry (values still character sequences) after the first n cells
\* (lines 1225-1245); a cell whose key is not recognized stores nothing
\* variant: every cell is stored, under its header or under col_i
RECURSIVE HistoryEntryAllKeys(_, _, _)
HistoryEntryAllKeys(headers, tds, n) ==
    IF n = 0 THEN EmptyDict
    ELSE LET entry == HistoryEntryAllKeys(headers, tds, n - 1)
             key   == IF n <= Len(headers) THEN headers[n] ELSE "col_" \o ToString(n - 1)
         IN Put(entry, key, CleanText(tds[n].text))
RECURSIVE HistoryEntry(_, _, _)
HistoryEntry(headers, tds, n) ==
    IF n = 0 THEN EmptyDict
    ELSE LET entry == HistoryEntry(headers, tds, n - 1)
             key   == IF n <= Len(headers) THEN headers[n] ELSE NoneV
             td    == tds[n]
             value == CleanText(td.text)
             a     == HrefAnchorIndex(td)
         IN IF key \notin RecognizedFields THEN entry
            ELSE IF key \in {"opponent", "event"} /\ a # 0
            THEN LET atext == CleanText(td.anchors[a].text)
                     href  == UrlJoin(td.anchors[a].href)
                 IN Put(Put(Put(entry, key \o "_url", href),
                            key \o "_id", ExtractIdFromUrl(href)),
                        key, IF atext # <<>> THEN atext ELSE value)
            ELSE Put(entry, key, value)

ResultCodes == {<<"W">>, <<"L">>, <<"D">>, <<"N", "C">>}

\* variant: every result text is upper-cased
NormalizeResultUpper(entry) ==
    IF "result" \in DOMAIN entry /\ entry["result"] # <<>>
    THEN Put(entry, "result", Upper(Strip(entry["result"])))
    ELSE entry

\* lines 1249-1252
NormalizeResult(entry) ==
    IF "result" \in DOMAIN entry /\ entry["result"] # <<>>
    THEN LET r == Upper(Strip(entry["result"]))
         IN IF r \in ResultCodes THEN Put(entry, "result", r) ELSE entry
    ELSE entry

EntryStr(entry) == [k \in DOMAIN entry |-> ToStr(entry[k])]

\* the entry appended for one row with cells (lines 1225-1254)
HistoryRowEntry(headers, tds) ==
    EntryStr(NormalizeResult(HistoryEntry(headers, tds, Len(tds))))

\* the loop over tbody rows (lines 1220-1254), after the first n rows
\* variant: entries are put in front of the list
RECURSIVE HistoryRowsReversed(_, _, _)
HistoryRowsReversed(headers, rows, n) ==
    IF n = 0 THEN <<>>
    ELSE LET out == HistoryRowsReversed(headers, rows, n - 1)
             tds == rows[n]
         IN IF tds = <<>> THEN out ELSE <<HistoryRowEntry(headers, tds)>> \o out
RECURSIVE HistoryRows(_, _, _)
HistoryRows(headers, rows, n) ==
    IF n = 0 THEN <<>>
    ELSE LET out == HistoryRows(headers, rows, n - 1)
             tds == rows[n]
         IN IF tds = <<>> THEN out ELSE Append(out, HistoryRowEntry(headers, tds))

ParseFightHistoryTable(table) ==
    IF ~(table.hasHead /\ table.hasBody) THEN <<>>
    ELSE HistoryRows(HistoryHeaders(table), table.rows, Len(table.rows))

----------------------------------------------------------------------------
(* ESPNMMAScraper._attach_stats_to_fights *)

SectionPayload(stats, section) ==
    IF section \in DOMAIN stats THEN stats[section] ELSE EmptyPayload

\* combined.setdefault(eid_or_key, {})[section] = payload["metrics"], for the
\* first n keys of one section in the payload's iteration order
RECURSIVE CombineSection(_, _, _, _)
CombineSection(combined, section, payload, n) ==
    IF n = 0 THEN combined
    ELSE LET c    == CombineSection(combined, section, payload, n - 1)
             key  == payload.order[n]
             item == payload.items[key]
             eid_or_key == IF Truthy(item.meta["event_id"])
                           THEN item.meta["event_id"] ELSE key
             old  == IF eid_or_key \in DOMAIN c THEN c[eid_or_key] ELSE EmptyDict
         IN Put(c, eid_or_key, Put(old, section, item.metrics))

\* lines 460-464, after the first n sections
RECURSIVE Combined(_, _)
Combined(stats, n) ==
    IF n = 0 THEN EmptyDict
    ELSE LET payload == SectionPayload(stats, Sections[n])
         IN CombineSection(Combined(stats, n - 1), Sections[n], payload, Len(payload.order))

\* jkey = str(f.get("event_id") or f"{f.get('date')}|{f.get('opponent')}")
FightJoinKey(f) ==
    IF Truthy(Get(f, "event_id")) THEN f["event_id"] ELSE CompositeKey(f)

\* lines 466-471 for one fight: f[section] = metrics for each section of combined[jkey]
\* variants: only the first section is attached; every section is attached,
\* empty when missing; metrics are appended to a list per section; the
\* entry is replaced by its sections
AttachOneStrikingOnly(f, combined) ==
    LET jkey == FightJoinKey(f)
    IN IF jkey \in DOMAIN combined /\ "striking" \in DOMAIN combined[jkey]
       THEN Put(f, "striking", combined[jkey]["striking"]) ELSE f
AttachOneAllSections(f, combined) ==
    LET jkey == FightJoinKey(f)
        found == IF jkey \in DOMAIN combined THEN combined[jkey] ELSE EmptyDict
    IN [s \in {Sections[i] : i \in DOMAIN Sections} |->
            IF s \in DOMAIN found THEN found[s] ELSE EmptyDict] @@ f
AttachOneAppend(f, combined) ==
    LET jkey == FightJoinKey(f)
    IN IF jkey \in DOMAIN combined
       THEN [s \in DOMAIN combined[jkey] |->
                IF s \in DOMAIN f THEN Append(f[s], combined[jkey][s])
                ELSE <<combined[jkey][s]>>] @@ f
       ELSE f
AttachOneReplace(f, combined) ==
    LET jkey == FightJoinKey(f)
    IN IF jkey \in DOMAIN combined THEN combined[jkey] ELSE f
AttachOne(f, combined) ==
    LET jkey == FightJoinKey(f)
    IN IF jkey \in DOMAIN combined THEN combined[jkey] @@ f ELSE f

AttachStatsToFights(fs, stats) ==
    IF fs = <<>> THEN fs
    ELSE LET combined == Combined(stats, Len(Sections))
         IN [i \in DOMAIN fs |-> AttachOne(fs[i], combined)]

----------------------------------------------------------------------------
(* ESPNMMAScraper._pick_stats_table_by_title, scrape_fighter_stats and     *)
(* scrape_fighter_history.  A stats page is the sequence of its            *)
(* div.ResponsiveTable boxes, each [hasTitle, title, hasTable, table]; a   *)
(* history page is the sequence of its tables.                             *)

RECURSIVE Contains(_, _)
Contains(t, p) ==
    IF Len(t) < Len(p) THEN FALSE
    ELSE StartsWith(t, p) \/ Contains(Tail(t), p)

\* index of the box whose table is picked, 0 for None
PickStatsTableByTitle(boxes, title_lower) ==
    LET ok(i) == /\ boxes[i].hasTitle
                 /\ ToStr(Lower(Strip(boxes[i].title))) = title_lower
                 /\ boxes[i].hasTable
    IN IF \E i \in DOMAIN boxes : ok(i)
       THEN CHOOSE i \in DOMAIN boxes : ok(i) /\ \A j \in DOMAIN boxes : ok(j) => i <= j
       ELSE 0

\* stats_sections of scrape_fighter_stats (lines 1127-1130)
StatsSections(boxes) ==
    [s \in {Sections[i] : i \in DOMAIN Sections} |->
        LET b == PickStatsTableByTitle(boxes, s)
        IN IF b = 0 THEN EmptyPayload ELSE ParseStatsTable(boxes[b].table)]

RECURSIVE Flatten(_)
Flatten(ts) == IF ts = <<>> THEN <<>> ELSE ts[1] \o Flatten(Tail(ts))

HistoryKeywords == {<<"d","a","t","e">>, <<"o","p","p","o","n","e","n","t">>,
                    <<"r","e","s","u","l","t">>, <<"e","v","e","n","t">>}

\* history_data['fights'] of scrape_fighter_history (lines 1167-1173)
RECURSIVE HistoryFights(_)
HistoryFights(tables) ==
    IF tables = <<>> THEN <<>>
    ELSE LET t == tables[1]
             header_text == Lower(Flatten(t.headers))
         IN (IF t.hasHead /\ \E k \in HistoryKeywords : Contains(header_text, k)
             THEN ParseFightHistoryTable(t) ELSE <<>>)
            \o HistoryFights(Tail(tables))

----------------------------------------------------------------------------
(* ESPNMMAScraper._header_map *)

\* {h: i for i, h in enumerate(headers)}, after the first n headers
\* variant: a repeated header keeps its first index
RECURSIVE HeaderMapFirstWins(_, _)
HeaderMapFirstWins(ths, n) ==
    IF n = 0 THEN EmptyDict
    ELSE LET m == HeaderMapFirstWins(ths, n - 1)
             h == ToStr(Lower(CleanText(ths[n])))
         IN IF h \in DOMAIN m THEN m ELSE Put(m, h, n - 1)
RECURSIVE HeaderMap(_, _)
HeaderMap(ths, n) ==
    IF n = 0 THEN EmptyDict
    ELSE Put(HeaderMap(ths, n - 1), ToStr(Lower(CleanText(ths[n]))), n - 1)

----------------------------------------------------------------------------
(* UFCStatsScraper: _extract_id_from_url, _parse_stat_fraction and the     *)
(* fight-history loop of scrape_fighter                                    *)

\* url.split('/')[-1]
RECURSIVE LastSegment(_)
LastSegment(url) ==
    IF url = <<>> \/ url[Len(url)] = "/" THEN <<>>
    ELSE Append(LastSegment(SubSeq(url, 1, Len(url) - 1)), url[Len(url)])

UfcExtractIdFromUrl(url) == IF url = <<>> THEN <<>> ELSE LastSegment(url)

DigitValue(c) == CHOOSE n \in 0..9 : ToString(n) = c
RECURSIVE IntOf(_)
IntOf(ds) ==
    IF ds = <<>> THEN 0 ELSE 10 * IntOf(SubSeq(ds, 1, Len(ds) - 1)) + DigitValue(ds[Len(ds)])

\* the text after the whitespace run at the start of t (<<>> is returned
\* with hadSpace FALSE when t does not start with whitespace)
SkipSpaces(t) == [hadSpace |-> t # <<>> /\ IsSpace(t[1]), rest |-> LStrip(t)]

\* the digits of group 2 of (?:\s+of\s+(\d+))? matched at the start of t,
\* <<>> when the group does not take part in the match
OfGroup(t) ==
    LET a == SkipSpaces(t)
        b == IF StartsWith(a.rest, <<"o", "f">>) THEN SkipSpaces(From(a.rest, 3))
             ELSE [hadSpace |-> FALSE, rest |-> <<>>]
    IN IF a.hadSpace /\ b.hadSpace THEN DigitRun(b.rest) ELSE <<>>

\* variant: the digits after " of " are not read
ParseStatFractionLandedOnly(text) ==
    LET s == Strip(text)
        digits == {i \in DOMAIN s : IsDigit(s[i])}
    IN IF text = <<>> \/ s = <<"-", "-", "-">> \/ digits = {} THEN <<0, 0>>
       ELSE LET i == CHOOSE i \in digits : \A j \in digits : i <= j
                landed == DigitRun(From(s, i))
            IN <<IntOf(landed), IntOf(landed)>>
ParseStatFraction(text) ==
    LET s == Strip(text)
        digits == {i \in DOMAIN s : IsDigit(s[i])}
    IN IF text = <<>> \/ s = <<"-", "-", "-">> THEN <<0, 0>>
       ELSE IF digits = {} THEN <<0, 0>>
       ELSE LET i == CHOOSE i \in digits : \A j \in digits : i <= j
                landed == DigitRun(From(s, i))
                group2 == OfGroup(From(s, i + Len(landed)))
            IN <<IntOf(landed), IF group2 # <<>> THEN IntOf(group2) ELSE IntOf(landed)>>

Chars_doNav == <<"d", "o", "N", "a", "v", "(", "'">>
RECURSIVE NoQuoteRun(_)
NoQuoteRun(t) ==
    IF t # <<>> /\ t[1] # "'" THEN <<t[1]>> \o NoQuoteRun(Tail(t)) ELSE <<>>

\* re.search(r"doNav\('([^']+)'\)", onclick): group 1, <<>> when no match
DoNavUrl(onclick) ==
    LET arg(i) == NoQuoteRun(From(onclick, i + 7))
        hits == {i \in DOMAIN onclick :
                    /\ StartsWith(From(onclick, i), Chars_doNav)
                    /\ arg(i) # <<>>
                    /\ StartsWith(From(onclick, i + 7 + Len(arg(i))), <<"'", ")">>)}
    IN IF hits = {} THEN <<>> ELSE arg(CHOOSE i \in hits : \A j \in hits : i <= j)

\* fight_data of one row (lines 179-249).  A row is [hasOnclick, onclick,
\* cols]: the onclick attribute and the texts of its td cells.  The fields
\* read from elements nested in cols[0..7] (result flag, opponent link,
\* KD/Str/Td/Sub, event link, date, method) are not part of the model.
UfcFightData(row) ==
    LET url == DoNavUrl(row.onclick)
        nav == IF url = <<>> THEN EmptyDict
               ELSE [fight_url |-> ToStr(url), fight_id |-> ToStr(UfcExtractIdFromUrl(url))]
    IN IF Len(row.cols) >= 10
       THEN Put(Put(nav, "round", ToStr(Strip(row.cols[9]))), "time", ToStr(Strip(row.cols[10])))
       ELSE nav

\* if not row.get('onclick'): continue
UfcRowKept(row) == row.hasOnclick /\ row.onclick # <<>>

\* fights of scrape_fighter (lines 172-251)
RECURSIVE UfcFights(_)
UfcFights(rows) ==
    IF rows = <<>> THEN <<>>
    ELSE (IF UfcRowKept(rows[1]) THEN <<UfcFightData(rows[1])>> ELSE <<>>)
         \o UfcFights(Tail(rows))

----------------------------------------------------------------------------
(* _parse_schedule_date *)

MONTHS == [m \in {"Jan", "Feb", "Mar", "Apr", "May", "Jun",
                  "Jul", "Aug", "Sep", "Oct", "Nov", "Dec"} |->
             CASE m = "Jan" -> 1 [] m = "Feb" -> 2 [] m = "Mar" -> 3 [] m = "Apr" -> 4
               [] m = "May" -> 5 [] m = "Jun" -> 6 [] m = "Jul" -> 7 [] m = "Aug" -> 8
               [] m = "Sep" -> 9 [] m = "Oct" -> 10 [] m = "Nov" -> 11 [] m = "Dec" -> 12]

IsLetter(c) == (\E i \in DOMAIN UpperLetters : UpperLetters[i] = c)
                  \/ (\E i \in DOMAIN LowerLetters : LowerLetters[i] = c)

\* str.title() of a word of letters
Title(t) == [i \in DOMAIN t |-> IF i = 1 THEN UpperChar(t[i]) ELSE LowerChar(t[i])]

\* f"{n:02d}" and f"{n:04d}" of a natural number
Pad2(n) == IF n < 10 THEN "0" \o ToString(n) ELSE ToString(n)
Pad4(n) == IF n < 10 THEN "000" \o ToString(n)
           ELSE IF n < 100 THEN "00" \o ToString(n)
           ELSE IF n < 1000 THEN "0" \o ToString(n)
           ELSE ToString(n)

\* re.match(r'([A-Za-z]{3})\s+(\d{1,2})', s): <<matched, group 1, group 2>>
MatchMonDay(s) ==
    LET sp  == SkipSpaces(From(s, 4))
        run == DigitRun(sp.rest)
    IN IF /\ Len(s) >= 3
          /\ \A i \in 1..3 : IsLetter(s[i])
          /\ sp.hadSpace
          /\ run # <<>>
       THEN <<TRUE, SubSeq(s, 1, 3), SubSeq(run, 1, IF Len(run) >= 2 THEN 2 ELSE 1)>>
       ELSE <<FALSE, <<>>, <<>>>>

\* variant: the whole text must be the month and the day (re.fullmatch)
ParseScheduleDateExact(text, year) ==
    LET m == MatchMonDay(Strip(text))
        key == ToStr(Title(m[2]))
        whole == m[1] /\ DigitRun(SkipSpaces(From(Strip(text), 4)).rest)
                            = SkipSpaces(From(Strip(text), 4)).rest
                      /\ Len(DigitRun(SkipSpaces(From(Strip(text), 4)).rest)) <= 2
    IN IF text = <<>> THEN NoneV
       ELSE IF ~whole THEN ToStr(CleanText(text))
       ELSE IF key \notin DOMAIN MONTHS THEN ToStr(CleanText(text))
       ELSE Pad4(year) \o "-" \o Pad2(MONTHS[key]) \o "-" \o Pad2(IntOf(m[3]))

ParseScheduleDate(text, year) ==
    LET m == MatchMonDay(Strip(text))
        key == ToStr(Title(m[2]))
    IN IF text = <<>> THEN NoneV
       ELSE IF ~m[1] THEN ToStr(CleanText(text))
       ELSE IF key \notin DOMAIN MONTHS THEN ToStr(CleanText(text))
       ELSE Pad4(year) \o "-" \o Pad2(MONTHS[key]) \o "-" \o Pad2(IntOf(m[3]))

----------------------------------------------------------------------------
(* _names_match_fotn and its use in crawl_all *)

\* the accented letters of the pages; each is one character of the text
Accented == [c \in {"e_acute", "E_acute", "o_umlaut"} |->
               CASE c = "e_acute" -> "e" [] c = "E_acute" -> "E" [] c = "o_umlaut" -> "o"]

\* unicodedata.normalize('NFD', s) without the characters of category Mn
StripAccents(t) == [i \in DOMAIN t |-> IF t[i] \in DOMAIN Accented THEN Accented[t[i]] ELSE t[i]]

\* the last element of t.split(), <<>> when there is none
RECURSIVE LastWordOf(_)
LastWordOf(t) ==
    LET s == RStrip(t)
    IN IF s = <<>> \/ IsSpace(s[Len(s)]) THEN <<>>
       ELSE IF Len(s) = 1 \/ IsSpace(s[Len(s) - 1]) THEN <<s[Len(s)]>>
       ELSE Append(LastWordOf(SubSeq(s, 1, Len(s) - 1)), s[Len(s)])

\* last_name(n)
LastName(n) == LastWordOf(Lower(StripAccents(n)))

\* a and b of Python, for a string a and a bool b, as the text of its value
PyAnd(a, b) == IF a = <<>> THEN "" ELSE IF b THEN "True" ELSE "False"

\* variant: one of the two last names is enough
NamesMatchFotnEither(names, fotn_text) ==
    IF fotn_text = <<>> \/ Len(names) # 2 THEN "False"
    ELSE LET ftxt == Lower(StripAccents(fotn_text))
             m1 == PyAnd(LastName(names[1]), Contains(ftxt, LastName(names[1])))
             m2 == PyAnd(LastName(names[2]), Contains(ftxt, LastName(names[2])))
         IN IF m1 = "True" THEN m1 ELSE m2

\* the value returned: "True", "False", or "" when a last name is empty
NamesMatchFotn(names, fotn_text) ==
    IF fotn_text = <<>> \/ Len(names) # 2 THEN "False"
    ELSE LET ln1 == LastName(names[1])
             ln2 == LastName(names[2])
             ftxt == Lower(StripAccents(fotn_text))
             m1 == PyAnd(ln1, Contains(ftxt, ln1))
         IN IF m1 # "True" THEN m1 ELSE PyAnd(ln2, Contains(ftxt, ln2))

\* the truth value of that result
PyTrue(v) == v \notin {"", "False"}

CardFight(names) == [fighter_names |-> names, is_fotn |-> FALSE]

\* lines 1353-1359: the fights after the marking
MarkFotn(fs, fotn) ==
    IF fotn = <<>> \/ fs = <<>> THEN fs
    ELSE [i \in DOMAIN fs |->
            IF PyTrue(NamesMatchFotn(fs[i].fighter_names, fotn))
            THEN [fs[i] EXCEPT !.is_fotn = TRUE] ELSE fs[i]]

----------------------------------------------------------------------------
(* ESPNMMAScraper.scrape_schedule_year and the league filter of crawl_all *)

\* " ".join of the stripped, non-empty texts
RECURSIVE JoinStripped(_)
JoinStripped(ts) ==
    IF ts = <<>> THEN <<>>
    ELSE LET h == Strip(ts[1])
             r == JoinStripped(Tail(ts))
         IN IF h = <<>> THEN r ELSE IF r = <<>> THEN h ELSE h \o <<" ">> \o r

\* thead.get_text(" ", strip=True).lower()
ScheduleHeaderText(t) == Lower(JoinStripped(t.headers))

Chars_event == <<"e", "v", "e", "n", "t">>
Chars_location == <<"l", "o", "c", "a", "t", "i", "o", "n">>
Chars_date == <<"d", "a", "t", "e">>
Chars_fight_of_the_night == <<"f", "i", "g", "h", "t", " ", "o", "f", " ", "t", "h", "e", " ", "n", "i", "g", "h", "t">>
Chars_fotn == <<"f", "o", "t", "n">>
Chars_fightcenter == <<"/", "m", "m", "a", "/", "f", "i", "g", "h", "t", "c", "e", "n", "t", "e", "r", "/", "_", "/", "i", "d", "/">>
Chars_league == <<"/", "l", "e", "a", "g", "u", "e", "/">>

\* variant: the Fight of the Night column is not asked for
IsPastResultsAnySchedule(t) ==
    LET header_text == ScheduleHeaderText(t)
    IN /\ t.hasHead
       /\ Contains(header_text, Chars_event)
       /\ Contains(header_text, Chars_location)
       /\ Contains(header_text, Chars_date)

\* lines 611-623: the table is a 'Past Results' table
IsPastResults(t) ==
    LET header_text == ScheduleHeaderText(t)
    IN /\ t.hasHead
       /\ Contains(header_text, Chars_event)
       /\ Contains(header_text, Chars_location)
       /\ Contains(header_text, Chars_date)
       /\ Contains(header_text, Chars_fight_of_the_night) \/ Contains(header_text, Chars_fotn)

\* next((i for h, i in hmap.items() if ...), None) for the four columns: the
\* index held by the first key, in insertion order, that passes the test
\* (columns counted from 0; -1 for None)
HeaderKeyAt(ths, n) == Lower(CleanText(ths[n]))
IsDateKey(h) == StartsWith(h, Chars_date)
IsEventKey(h) == StartsWith(h, Chars_event)
IsLocationKey(h) == StartsWith(h, Chars_location)
IsFotnKey(h) == Contains(h, Chars_fight_of_the_night) \/ h = Chars_fotn
ColumnIndex(ths, Test(_)) ==
    LET hits == {n \in DOMAIN ths : Test(HeaderKeyAt(ths, n))}
    IN IF hits = {} THEN -1
       ELSE LET first == CHOOSE n \in hits : \A m \in hits : n <= m
            IN HeaderMap(ths, Len(ths))[ToStr(HeaderKeyAt(ths, first))]

\* tds[idx] when idx is not None and idx < len(tds)
HasColumn(tds, idx) == idx >= 0 /\ idx < Len(tds)

\* ev_td.find('a', href=True): its index among the anchors, 0 for None
HrefAnchor(td) ==
    IF \E i \in DOMAIN td.anchors : td.anchors[i].hasHref
    THEN CHOOSE i \in DOMAIN td.anchors :
            /\ td.anchors[i].hasHref
            /\ \A j \in DOMAIN td.anchors : td.anchors[j].hasHref => i <= j
    ELSE 0

IsSlugChar(c) == IsLowerLetter(c) \/ IsDigit(c) \/ c = "-"
RECURSIVE SlugRun(_)
SlugRun(t) == IF t # <<>> /\ IsSlugChar(t[1]) THEN <<t[1]>> \o SlugRun(Tail(t)) ELSE <<>>

\* variant: any league found in the url is accepted
LeagueAllowedAny(league, allowed) == allowed = {} \/ league # NoneV

\* not (self.allowed_leagues and (league not in self.allowed_leagues))
LeagueAllowed(league, allowed) == allowed = {} \/ league \in allowed

\* re.search(r'/league/([a-z0-9-]+)', event_url): group 1, or None
LeagueOf(url) ==
    LET hits == {i \in DOMAIN url :
                    /\ StartsWith(From(url, i), Chars_league)
                    /\ SlugRun(From(url, i + Len(Chars_league))) # <<>>}
    IN IF hits = {} THEN NoneV
       ELSE ToStr(SlugRun(From(url, (CHOOSE i \in hits : \A j \in hits : i <= j)
                                       + Len(Chars_league))))

\* the cleaned text of a column, or the default when the row has no such cell
ColumnText(tds, idx, default) ==
    IF HasColumn(tds, idx) THEN ToStr(CleanText(tds[idx + 1].text)) ELSE default

\* lines 632-677: one tbody row; acc is [events, seen_urls]
ScheduleRow(acc, ths, tds, year, allowed) ==
    LET idx_event == ColumnIndex(ths, IsEventKey)
        has_ev == tds # <<>> /\ HasColumn(tds, idx_event)
        a == IF has_ev THEN HrefAnchor(tds[idx_event + 1]) ELSE 0
    IN IF a = 0 THEN acc
       ELSE LET ev_td == tds[idx_event + 1]
                href == ev_td.anchors[a].href
                event_url == UrlJoin(href)
                link_name == ToStr(CleanText(ev_td.anchors[a].text))
                league == LeagueOf(event_url)
                fotn == ColumnText(tds, ColumnIndex(ths, IsFotnKey), NoneV)
            IN IF ~Contains(href, Chars_fightcenter) THEN acc
               ELSE IF ToStr(event_url) \in acc.seen THEN acc
               ELSE IF ~LeagueAllowed(league, allowed)
               THEN [acc EXCEPT !.seen = @ \cup {ToStr(event_url)}]
               ELSE [events |-> Append(acc.events,
                        [url |-> ToStr(event_url),
                         id |-> ToStr(ExtractIdFromUrl(event_url)),
                         name |-> IF link_name # "" THEN link_name
                                  ELSE ToStr(CleanText(ev_td.text)),
                         date |-> ParseScheduleDate(
                                     CleanText(IF HasColumn(tds, ColumnIndex(ths, IsDateKey))
                                               THEN tds[ColumnIndex(ths, IsDateKey) + 1].text
                                               ELSE <<>>), year),
                         location |-> ColumnText(tds, ColumnIndex(ths, IsLocationKey), ""),
                         league |-> league,
                         year |-> year,
                         fight_of_the_night |-> IF fotn = "" THEN NoneV ELSE fotn]),
                     seen |-> acc.seen \cup {ToStr(event_url)}]

\* the first n rows of one table
RECURSIVE ScheduleRows(_, _, _, _, _)
ScheduleRows(acc, t, n, year, allowed) ==
    IF n = 0 THEN acc
    ELSE ScheduleRow(ScheduleRows(acc, t, n - 1, year, allowed),
                     t.headers, t.rows[n], year, allowed)

\* the first n tables of the page
RECURSIVE ScheduleTables(_, _, _, _)
ScheduleTables(tables, n, year, allowed) ==
    IF n = 0 THEN [events |-> <<>>, seen |-> {}]
    ELSE LET acc == ScheduleTables(tables, n - 1, year, allowed)
             t == tables[n]
         IN IF IsPastResults(t) THEN ScheduleRows(acc, t, Len(t.rows), year, allowed)
            ELSE acc

\* events of scrape_schedule_year
ScheduleEvents(tables, year, allowed) ==
    ScheduleTables(tables, Len(tables), year, allowed).events

\* (event_info.get('league') or "").lower(); lower() changes nothing in a
\* league of characters a-z, 0-9 and "-"
LeagueVal(event_info) == IF event_info.league = NoneV THEN "" ELSE event_info.league

\* crawl_all lines 1323-1326: the events not skipped for their league
CrawlAllowed(events, allowed) ==
    SelectSeq(events, LAMBDA e : LeagueAllowed(LeagueVal(e), allowed))

----------------------------------------------------------------------------
(* Fighter-name resolution: _slug_to_name, _extract_name_near_anchor with  *)
(* _build_id_to_name_map, and _name_from_anchor_local.                      *)
(* A fighter link is [comp, card, text, href]: comp holds the texts of the *)
(* elements that select_one finds in the nearest competitor container, one *)
(* per selector that matches, in the order of the selector list (<<>> when *)
(* there is no container or no selector matches); card holds the same for  *)
(* the nearest card container; text and href are the link's own.           *)

\* t.split(c)
RECURSIVE SplitOn(_, _)
SplitOn(t, c) ==
    LET hits == {i \in DOMAIN t : t[i] = c}
    IN IF hits = {} THEN <<t>>
       ELSE LET k == CHOOSE i \in hits : \A j \in hits : i <= j
            IN <<SubSeq(t, 1, k - 1)>> \o SplitOn(From(t, k + 1), c)

\* t.rstrip('/')
RECURSIVE RStripSlash(_)
RStripSlash(t) ==
    IF t # <<>> /\ t[Len(t)] = "/" THEN RStripSlash(SubSeq(t, 1, Len(t) - 1)) ELSE t

\* t.split(): the words between whitespace
RECURSIVE WordsOfText(_)
WordsOfText(t) ==
    LET s == LStrip(t)
        spaces == {i \in DOMAIN s : IsSpace(s[i])}
    IN IF s = <<>> THEN <<>>
       ELSE IF spaces = {} THEN <<s>>
       ELSE LET k == CHOOSE i \in spaces : \A j \in spaces : i <= j
            IN <<SubSeq(s, 1, k - 1)>> \o WordsOfText(From(s, k))

\* w.capitalize()
Capitalize(w) == [i \in DOMAIN w |-> IF i = 1 THEN UpperChar(w[i]) ELSE LowerChar(w[i])]

\* ' '.join(ws)
RECURSIVE JoinWords(_)
JoinWords(ws) ==
    IF ws = <<>> THEN <<>>
    ELSE IF Len(ws) = 1 THEN ws[1]
    ELSE ws[1] \o <<" ">> \o JoinWords(Tail(ws))

SlugToName(href) ==
    LET parts == SplitOn(RStripSlash(href), "/")
        ids == {i \in DOMAIN parts : parts[i] = <<"i", "d">>}
    IN IF href = <<>> \/ ids = {} THEN ""
       ELSE LET i == CHOOSE i \in ids : \A j \in ids : i <= j
            IN IF i + 2 <= Len(parts) /\ parts[i + 2] # <<>>
               THEN LET words == WordsOfText([k \in DOMAIN parts[i + 2] |->
                                     IF parts[i + 2][k] = "-" THEN " " ELSE parts[i + 2][k]])
                    IN ToStr(JoinWords([k \in DOMAIN words |-> Capitalize(words[k])]))
               ELSE ""

\* txt and txt.lower() not in ('full profile', 'profile')
IsName(txt) == txt # <<>> /\ Lower(txt) \notin {<<"f", "u", "l", "l", " ", "p", "r", "o", "f", "i", "l", "e">>, <<"p", "r", "o", "f", "i", "l", "e">>}

\* the selector loop over one container: the first element whose cleaned
\* text is a name, "" when there is none
RECURSIVE NameInContainer(_)
NameInContainer(els) ==
    IF els = <<>> THEN ""
    ELSE IF IsName(CleanText(els[1])) THEN ToStr(CleanText(els[1]))
    ELSE NameInContainer(Tail(els))

\* variant: the link text is tried before the competitor container
NameFromAnchorLocalLinkFirst(a) ==
    IF IsName(CleanText(a.text)) THEN ToStr(CleanText(a.text))
    ELSE IF NameInContainer(a.comp) # "" THEN NameInContainer(a.comp)
    ELSE SlugToName(a.href)

\* _name_from_anchor_local of _extract_fight_card_segments
NameFromAnchorLocal(a) ==
    IF NameInContainer(a.comp) # "" THEN NameInContainer(a.comp)
    ELSE IF IsName(CleanText(a.text)) THEN ToStr(CleanText(a.text))
    ELSE SlugToName(a.href)

ExtractNameNearAnchor(a) ==
    IF NameInContainer(a.comp) # "" THEN NameInContainer(a.comp)
    ELSE IF NameInContainer(a.card) # "" THEN NameInContainer(a.card)
    ELSE IF IsName(CleanText(a.text)) THEN ToStr(CleanText(a.text))
    ELSE ""

\* _build_id_to_name_map, lines 143-145: the name kept for the link
NameForIdMap(a) ==
    IF ExtractNameNearAnchor(a) # "" THEN ExtractNameNearAnchor(a) ELSE SlugToName(a.href)

----------------------------------------------------------------------------
(* UFCStatsScraper._extract_fight_stats with _find_sig_strikes_table and   *)
(* _extract_sig_strikes_stats.                                             *)
(* A fight page is the sequence of its b-fight-details__section elements   *)
(* and its tables in document order.  An element is [kind, text, hasHead,  *)
(* hasBody, hasRow, names, cols]: text is the text of the section, or of   *)
(* the thead of the table; names are the links of the first td of the      *)
(* first tbody row, each [name, href]; cols are its other td cells, each   *)
(* the sequence of its p.b-fight-details__table-text texts.                *)

UfcSection(text) ==
    [kind |-> "section", text |-> text, hasHead |-> FALSE, hasBody |-> FALSE,
     hasRow |-> FALSE, names |-> <<>>, cols |-> <<>>]
UfcTable(head, names, cols) ==
    [kind |-> "table", text |-> head, hasHead |-> TRUE, hasBody |-> TRUE,
     hasRow |-> TRUE, names |-> names, cols |-> cols]

\* the least element of a non-empty set of numbers
Least(S) == CHOOSE n \in S : \A m \in S : n <= m

\* section.find_next('table'): the index of the first table after position p, 0 for None
FindNextTable(doc, p) ==
    LET after == {q \in DOMAIN doc : q > p /\ doc[q].kind = "table"}
    IN IF after = {} THEN 0 ELSE Least(after)

\* variant: the last section and the last table that match are taken
TotalsTableLast(doc) ==
    LET secs == {p \in DOMAIN doc : doc[p].kind = "section" /\ Contains(doc[p].text, <<"T", "o", "t", "a", "l", "s">>)}
        by_section == IF secs = {} THEN 0
                      ELSE FindNextTable(doc, CHOOSE n \in secs : \A m \in secs : n >= m)
        heads == {q \in DOMAIN doc : /\ doc[q].kind = "table" /\ doc[q].hasHead
                                     /\ Contains(doc[q].text, <<"F", "i", "g", "h", "t", "e", "r">>)
                                     /\ Contains(doc[q].text, <<"S", "i", "g", ".", " ", "s", "t", "r", ".">>)}
    IN IF by_section # 0 THEN by_section
       ELSE IF heads = {} THEN 0 ELSE CHOOSE n \in heads : \A m \in heads : n >= m

\* lines 459-474: the index of stats_table, 0 for None
TotalsTable(doc) ==
    LET secs == {p \in DOMAIN doc : doc[p].kind = "section" /\ Contains(doc[p].text, <<"T", "o", "t", "a", "l", "s">>)}
        by_section == IF secs = {} THEN 0 ELSE FindNextTable(doc, Least(secs))
        heads == {q \in DOMAIN doc : /\ doc[q].kind = "table" /\ doc[q].hasHead
                                     /\ Contains(doc[q].text, <<"F", "i", "g", "h", "t", "e", "r">>)
                                     /\ Contains(doc[q].text, <<"S", "i", "g", ".", " ", "s", "t", "r", ".">>)}
    IN IF by_section # 0 THEN by_section
       ELSE IF heads = {} THEN 0 ELSE Least(heads)

\* _find_sig_strikes_table: the index of the table, 0 for None
FindSigStrikesTable(doc) ==
    LET secs == {p \in DOMAIN doc : /\ doc[p].kind = "section"
                                    /\ Contains(doc[p].text, <<"S", "i", "g", "n", "i", "f", "i", "c", "a", "n", "t", " ", "S", "t", "r", "i", "k", "e", "s">>)
                                    /\ FindNextTable(doc, p) # 0}
        heads == {q \in DOMAIN doc : /\ doc[q].kind = "table" /\ doc[q].hasHead
                                     /\ Contains(doc[q].text, <<"H", "e", "a", "d">>)
                                     /\ Contains(doc[q].text, <<"B", "o", "d", "y">>)
                                     /\ Contains(doc[q].text, <<"L", "e", "g">>)}
    IN IF secs # {} THEN FindNextTable(doc, Least(secs))
       ELSE IF heads = {} THEN 0 ELSE Least(heads)

\* the positions of t where a digit run begins that c follows
RunsBefore(t, c) ==
    {i \in DOMAIN t : /\ IsDigit(t[i])
                      /\ (i = 1 \/ ~IsDigit(t[i - 1]))
                      /\ Len(From(t, i)) > Len(DigitRun(From(t, i)))
                      /\ t[i + Len(DigitRun(From(t, i)))] = c}

\* variant: the last digit run that "%" follows
ParsePercentageLast(text) ==
    LET s == Strip(text)
        hits == RunsBefore(s, "%")
    IN IF hits = {} THEN 0
       ELSE IntOf(DigitRun(From(s, CHOOSE i \in hits : \A j \in hits : i >= j)))

\* _parse_percentage
ParsePercentage(text) ==
    LET s == Strip(text)
    IN IF text = <<>> \/ s = <<"-", "-", "-">> \/ s = <<>> THEN 0
       ELSE IF RunsBefore(s, "%") = {} THEN 0
       ELSE IntOf(DigitRun(From(s, Least(RunsBefore(s, "%")))))

\* variant: the minutes are counted as hundreds
ParseTimeControlHundreds(text) ==
    LET s == Strip(text)
        hits == {i \in RunsBefore(s, ":") :
                    DigitRun(From(s, i + Len(DigitRun(From(s, i))) + 1)) # <<>>}
    IN IF hits = {} THEN 0
       ELSE LET i == Least(hits)
                minutes == DigitRun(From(s, i))
                seconds == DigitRun(From(s, i + Len(minutes) + 1))
            IN IntOf(minutes) * 100 + IntOf(seconds)

\* _parse_time_control
ParseTimeControl(text) ==
    LET s == Strip(text)
        hits == {i \in RunsBefore(s, ":") :
                    DigitRun(From(s, i + Len(DigitRun(From(s, i))) + 1)) # <<>>}
    IN IF text = <<>> \/ s = <<"-", "-", "-">> \/ s = <<"0", ":", "0", "0">> THEN 0
       ELSE IF hits = {} THEN 0
       ELSE LET i == Least(hits)
                minutes == DigitRun(From(s, i))
                seconds == DigitRun(From(s, i + Len(minutes) + 1))
            IN IntOf(minutes) * 60 + IntOf(seconds)

\* int(stat_value) if stat_value.isdigit() else 0
IntIfDigits(t) == IF t # <<>> /\ \A k \in DOMAIN t : IsDigit(t[k]) THEN IntOf(t) ELSE 0

TotalsStatNames == <<"kd", "sig_str", "sig_str_pct", "total_str", "td", "td_pct",
                     "sub_att", "rev", "ctrl">>
SigStatNames == <<"sig_str_total", "sig_str_pct", "head", "body", "leg", "distance",
                  "clinch", "ground">>

\* one stat of the totals table put into the dict of fighter i
TotalsStat(d, name, value) ==
    IF name \in {"sig_str", "total_str", "td"}
    THEN Put(Put(d, name \o "_landed", ParseStatFraction(value)[1]),
             name \o "_attempted", ParseStatFraction(value)[2])
    ELSE IF name \in {"sig_str_pct", "td_pct"} THEN Put(d, name, ParsePercentage(value))
    ELSE IF name = "ctrl" THEN Put(d, "control_time", ParseTimeControl(value))
    ELSE Put(d, name, IntIfDigits(value))

\* one stat of the significant-strikes table
SigStat(d, name, value) ==
    IF name = "sig_str_pct" THEN Put(d, name, ParsePercentage(value))
    ELSE Put(Put(d, name \o "_landed", ParseStatFraction(value)[1]),
             name \o "_attempted", ParseStatFraction(value)[2])

\* the loop over stat_cols for fighter i, after the first n columns
RECURSIVE FighterStats(_, _, _, _, _)
FighterStats(d, cols, stat_names, i, n) ==
    IF n = 0 THEN d
    ELSE LET prev == FighterStats(d, cols, stat_names, i, n - 1)
             value == Strip(cols[n][i])
         IN IF Len(cols[n]) < i THEN prev
            ELSE IF stat_names = TotalsStatNames THEN TotalsStat(prev, stat_names[n], value)
            ELSE SigStat(prev, stat_names[n], value)

Min(a, b) == IF a <= b THEN a ELSE b

\* _extract_sig_strikes_stats
ExtractSigStrikesStats(table) ==
    IF ~(table.hasBody /\ table.hasRow) \/ 1 + Len(table.cols) < 9 THEN <<>>
    ELSE [i \in 1..Min(2, Len(table.names)) |->
            FighterStats(EmptyDict, table.cols, SigStatNames, i,
                         Min(Len(table.cols), Len(SigStatNames)))]

\* the fighters of the totals table, before the breakdown is added
FightTotals(table) ==
    IF ~(table.hasBody /\ table.hasRow) \/ 1 + Len(table.cols) < 10 THEN <<>>
    ELSE [i \in 1..Min(2, Len(table.names)) |->
            FighterStats([name |-> ToStr(Strip(table.names[i].name)),
                          id |-> ToStr(UfcExtractIdFromUrl(table.names[i].href))],
                         table.cols, TotalsStatNames, i,
                         Min(Len(table.cols), Len(TotalsStatNames)))]

\* _extract_fight_stats of a fight page
ExtractFightStats(doc) ==
    IF TotalsTable(doc) = 0 THEN <<>>
    ELSE LET totals == FightTotals(doc[TotalsTable(doc)])
             sig == IF FindSigStrikesTable(doc) = 0 THEN <<>>
                    ELSE ExtractSigStrikesStats(doc[FindSigStrikesTable(doc)])
         IN IF totals = <<>> THEN <<>>
            ELSE [i \in DOMAIN totals |->
                    IF i <= Len(sig) THEN sig[i] @@ totals[i] ELSE totals[i]]

----------------------------------------------------------------------------
(* ESPNMMAScraper.crawl_all and retry_failed_items with the progress       *)
(* ledger.  failed_events and failed_fighters are lists of [url, attempts]; *)
(* events.jsonl and fighters.jsonl are kept as the number of lines          *)
(* appended per url.  crawl.scraping names what the last step did with the  *)
(* url it visited: the scrape it made, with the pages fetched, or the skip.  *)

EventUrls == {"e1", "e2"}
FighterUrls == {"f1", "f2"}

EmptyLedger == [completed_events |-> {}, completed_fighters |-> {},
                failed_events |-> <<>>, failed_fighters |-> <<>>]
EmptyJsonl == [events |-> [u \in EventUrls |-> 0], fighters |-> [u \in FighterUrls |-> 0]]
NoScrape == [kind |-> "none", url |-> "", fetched |-> {}]
IdleCrawlState == [events_todo |-> <<>>, fighters_todo |-> <<>>, runs |-> 0,
                   scraping |-> NoScrape]

\* variant: a url is given up after four failed attempts
TooManyFailuresFour(failed, url) ==
    \E i \in DOMAIN failed : failed[i].url = url /\ failed[i].attempts >= 4

\* sum(1 for f in failed if f.get('url') == url and f.get('attempts', 0) >= 3) > 0
TooManyFailures(failed, url) ==
    \E i \in DOMAIN failed : failed[i].url = url /\ failed[i].attempts >= 3

\* _add_failed_event / _add_failed_fighter
AddFailed(failed, url) ==
    IF \E i \in DOMAIN failed : failed[i].url = url
    THEN LET i == CHOOSE i \in DOMAIN failed :
                     failed[i].url = url /\ \A j \in 1..(i - 1) : failed[j].url # url
         IN [failed EXCEPT ![i].attempts = @ + 1]
    ELSE Append(failed, [url |-> url, attempts |-> 1])

\* self.failed_events = [e for e in self.failed_events if e.get('url') != event_url]
RemoveFailed(failed, url) ==
    LET Other(e) == e.url # url IN SelectSeq(failed, Other)

\* [e for e in self.failed_events if e.get('attempts', 0) < 3], as urls
ToRetry(failed) ==
    LET Few(e) == e.attempts < 3
        kept == SelectSeq(failed, Few)
    IN [i \in DOMAIN kept |-> kept[i].url]

\* the keys of the dict that scrape_complete_fighter returns when the pages in
\* fetched (of profile, bio, stats, history) could be fetched
FighterPages == {"profile", "bio", "stats", "history"}
FighterData(fetched) ==
    (IF "profile" \in fetched THEN {"id", "url", "name_slug"} ELSE {})
    \cup (IF "bio" \in fetched THEN {"id", "bio_url"} ELSE {})
    \cup (IF "stats" \in fetched
          THEN {"id", "stats_url", "stats_sections", "striking_fights", "clinch_fights",
                "ground_fights"}
          ELSE {})
    \cup (IF "history" \in fetched THEN {"id", "history_url"} ELSE {})
    \cup {"fights"}

\* sorted(list(fighter_urls)) of a set of urls
RECURSIVE SortedUrls(_)
SortedUrls(S) ==
    IF S = {} THEN <<>>
    ELSE LET u == CHOOSE x \in S : \A y \in S : x = y \/ (x = "f1" /\ y = "f2")
         IN <<u>> \o SortedUrls(S \ {u})

----------------------------------------------------------------------------
(* UFCStatsScraper.crawl_all: the three seen sets and the three output     *)
(* files, each file kept as the sequence of the ids of its records         *)

NothingSeen == [fighters |-> {}, fights |-> {}, events |-> {}]
NothingWritten == [fighters |-> <<>>, fights |-> <<>>, events |-> <<>>]

\* variant: the id is not remembered
MarkSeenNot(seen, id) == seen

\* seen_fighters.add(fighter_id), seen_fights.add(fight_id), seen_events.add(event_id)
MarkSeen(seen, id) == seen \cup {id}

\* the event part of one fight (lines 1208-1223): [seen, written] afterwards;
\* outcome is what scrape_event does: "raised", "empty" or "data"
CrawlEventOf(event_url, outcome, seen, written) ==
    LET event_id == ToStr(UfcExtractIdFromUrl(event_url))
    IN IF event_url = <<>> \/ event_id \in seen \/ outcome # "data"
       THEN [seen |-> seen, written |-> written]
       ELSE [seen |-> MarkSeen(seen, event_id), written |-> Append(written, event_id)]

----------------------------------------------------------------------------
(* ESPNMMAScraper._get_page: what one pass of the retry loop returns.      *)
(* The outcome of a GET is "ok", "request_error" (a RequestException),     *)
(* "rate_limit" (a RequestException that _handle_rate_limit_error          *)
(* recognizes) or "unexpected" (any other exception).                      *)

\* variant: an unexpected error returns a document
PassReturnsLenient(outcome, attempt, max_retries) ==
    IF outcome \in {"ok", "unexpected"} THEN "document"
    ELSE IF outcome = "request_error" /\ attempt = max_retries - 1 THEN "None"
    ELSE "pending"

\* lines 294-312: "document", "None", or "pending" when the loop goes on
PassReturns(outcome, attempt, max_retries) ==
    IF outcome = "ok" THEN "document"
    ELSE IF outcome = "unexpected" THEN "None"
    ELSE IF outcome = "request_error" /\ attempt = max_retries - 1 THEN "None"
    ELSE "pending"

----------------------------------------------------------------------------
(* ESPNMMAScraper._extract_event_data_from_soup: fighter_urls *)

\* variant: the url is split without rstrip('/')
HasNameSlugUnstripped(url) ==
    LET url_parts == SplitOn(url, "/")
        ids == {p \in DOMAIN url_parts : url_parts[p] = <<"i", "d">> /\ p < Len(url_parts)}
    IN /\ Len(url_parts) >= 6
       /\ ids # {}
       /\ (CHOOSE p \in ids : \A q \in ids : p <= q) + 1 < Len(url_parts)

\* has_name_slug (lines 921-935); p is the position of the first part "id"
\* that another part follows, which is id_index of the code counted from 0
HasNameSlug(url) ==
    LET url_parts == SplitOn(RStripSlash(url), "/")
        ids == {p \in DOMAIN url_parts : url_parts[p] = <<"i", "d">> /\ p < Len(url_parts)}
    IN /\ Len(url_parts) >= 6
       /\ ids # {}
       /\ (CHOOSE p \in ids : \A q \in ids : p <= q) + 1 < Len(url_parts)

\* id_to_slug_url after the urls of order were visited one after the other
RECURSIVE IdToSlugUrl(_)
IdToSlugUrl(order) ==
    IF order = <<>> THEN EmptyDict
    ELSE LET d == IdToSlugUrl(SubSeq(order, 1, Len(order) - 1))
             url == order[Len(order)]
             fighter_id == ToStr(ExtractIdFromUrl(url))
         IN IF fighter_id = "" THEN d
            ELSE IF HasNameSlug(url) THEN Put(d, fighter_id, url)
            ELSE IF fighter_id \notin DOMAIN d THEN Put(d, fighter_id, url)
            ELSE d

\* the order of str: code points of the characters of the urls
CodePointOrder == <<"-", ".", "/", "0", "1", "2", "3", "4", "5", "6", "7", "8", "9", ":", "_", "a", "b", "c", "d", "e", "f", "g", "h", "i", "j", "k", "l", "m", "n", "o", "p", "q", "r", "s", "t", "u", "v", "w", "x", "y", "z">>
CodePoint(c) == CHOOSE i \in DOMAIN CodePointOrder : CodePointOrder[i] = c
RECURSIVE StrLess(_, _)
StrLess(a, b) ==
    IF b = <<>> THEN FALSE
    ELSE IF a = <<>> THEN TRUE
    ELSE IF a[1] = b[1] THEN StrLess(Tail(a), Tail(b))
    ELSE CodePoint(a[1]) < CodePoint(b[1])

\* sorted(list(S)) of a set of strings
RECURSIVE Sorted(_)
Sorted(S) ==
    IF S = {} THEN <<>>
    ELSE LET least == CHOOSE x \in S : \A y \in S : x = y \/ StrLess(x, y)
         IN <<least>> \o Sorted(S \ {least})

\* event_data['fighter_urls'] (lines 913-946 and 974)
FighterUrlsOf(order) ==
    LET id_to_slug_url == IdToSlugUrl(order)
    IN Sorted({id_to_slug_url[k] : k \in DOMAIN id_to_slug_url})

----------------------------------------------------------------------------
(* UFCStatsScraper per-round statistics.  A section of the fight page is   *)
(* [hasLink, link, hasTable, hasHead, head, body]: its collapse link text, *)
(* its table, the text of the table's thead of class                       *)
(* b-fight-details__table-head_rnd and the children of the table after it. *)
(* A child is a round header [kind "thead", hasTh, th] or a body           *)
(* [kind "tbody", hasRow, names, cols] with the links and the other td     *)
(* cells of its first tr.                                                  *)

RoundHeader(th) ==
    [kind |-> "thead", hasTh |-> TRUE, th |-> th, hasRow |-> FALSE, names |-> <<>>, cols |-> <<>>]
RoundBody(names, cols) ==
    [kind |-> "tbody", hasTh |-> FALSE, th |-> <<>>, hasRow |-> TRUE, names |-> names, cols |-> cols]
RoundBodyEmpty ==
    [kind |-> "tbody", hasTh |-> FALSE, th |-> <<>>, hasRow |-> FALSE, names |-> <<>>, cols |-> <<>>]
RoundSection(link, head, body) ==
    [hasLink |-> TRUE, link |-> link, hasTable |-> TRUE, hasHead |-> TRUE, head |-> head,
     body |-> body]

\* _extract_general_round_stats_from_row; row is [names, cols]
ExtractGeneralRoundStatsFromRow(round_number, row) ==
    IF Len(row.names) < 2 THEN NoneV
    ELSE [round_number |-> round_number,
          fighters |-> [i \in 1..2 |->
              FighterStats([name |-> ToStr(Strip(row.names[i].name)),
                            id |-> ToStr(UfcExtractIdFromUrl(row.names[i].href))],
                           row.cols, TotalsStatNames, i,
                           Min(Len(row.cols), Len(TotalsStatNames)))]]

\* the table of the first "Per round" section whose header names Head, Body,
\* Leg and Distance (lines 938-963): the index of the section, 0 for None
SigRoundsTable(sections) ==
    LET ok(p) == /\ sections[p].hasLink
                 /\ Contains(sections[p].link, <<"P", "e", "r", " ", "r", "o", "u", "n", "d">>)
                 /\ sections[p].hasTable
                 /\ LET header_txt == IF sections[p].hasHead THEN sections[p].head ELSE <<>>
                    IN /\ Contains(header_txt, <<"H", "e", "a", "d">>) /\ Contains(header_txt, <<"B", "o", "d", "y">>)
                       /\ Contains(header_txt, <<"L", "e", "g">>) /\ Contains(header_txt, <<"D", "i", "s", "t", "a", "n", "c", "e">>)
        hits == {p \in DOMAIN sections : ok(p)}
    IN IF hits = {} THEN 0 ELSE Least(hits)

\* re.search(r'Round\s+(\d+)', text): the digits of group 1, <<>> for no match
RoundDigits(text) ==
    LET digitsAt(k) == DigitRun(LStrip(From(text, k + 5)))
        hits == {k \in DOMAIN text : /\ StartsWith(From(text, k), <<"R", "o", "u", "n", "d">>)
                                     /\ k + 5 <= Len(text)
                                     /\ IsSpace(text[k + 5])
                                     /\ digitsAt(k) # <<>>}
    IN IF hits = {} THEN <<>> ELSE digitsAt(Least(hits))

\* _row_after_header: the index of the row found after header h, 0 for None
RowAfterHeader(body, h) ==
    LET stops == {q \in DOMAIN body : /\ q > h
                                      /\ \/ body[q].kind = "thead"
                                         \/ body[q].kind = "tbody" /\ body[q].hasRow}
    IN IF stops = {} THEN 0
       ELSE IF body[Least(stops)].kind = "thead" THEN 0
       ELSE Least(stops)

\* one label of _parse_sig_row put into the dict of fighter i
SigRowStat(d, label, val) ==
    IF label = "sig_str_pct" THEN Put(d, "sig_str_pct_detailed", ParsePercentage(val))
    ELSE Put(Put(d, label \o "_landed", ParseStatFraction(val)[1]),
             label \o "_attempted", ParseStatFraction(val)[2])

\* the loop over labels of _parse_sig_row for fighter i, after n labels
RECURSIVE SigRowFighter(_, _, _, _)
SigRowFighter(d, stat_cols, i, n) ==
    IF n = 0 THEN d
    ELSE LET prev == SigRowFighter(d, stat_cols, i, n - 1)
         IN IF Len(stat_cols[n]) < i THEN prev
            ELSE SigRowStat(prev, SigStatNames[n], Strip(stat_cols[n][i]))

\* _parse_sig_row
ParseSigRow(row) ==
    IF 1 + Len(row.cols) < 9 THEN <<>>
    ELSE [i \in 1..Min(2, Len(row.names)) |->
            SigRowFighter([id |-> ToStr(UfcExtractIdFromUrl(row.names[i].href)),
                           name |-> ToStr(Strip(row.names[i].name))],
                          row.cols, i, Len(SigStatNames))]

\* sig_by_round after the round headers among the first n children (lines 1021-1040)
RECURSIVE SigByRound(_, _)
SigByRound(body, n) ==
    IF n = 0 THEN EmptyDict
    ELSE LET prev == SigByRound(body, n - 1)
             hdr == body[n]
             digits == RoundDigits(Strip(hdr.th))
             row == RowAfterHeader(body, n)
         IN IF hdr.kind # "thead" \/ ~hdr.hasTh \/ digits = <<>> \/ row = 0 THEN prev
            ELSE IF ParseSigRow(body[row]) = <<>> THEN prev
            ELSE Put(prev, IntOf(digits), ParseSigRow(body[row]))

\* adders: the last fighter of the row with each id (line 1047)
Adders(fs) ==
    [fid \in {fs[i].id : i \in DOMAIN fs} |->
        fs[CHOOSE i \in DOMAIN fs : fs[i].id = fid /\ \A j \in DOMAIN fs : fs[j].id = fid => j <= i]]

\* variant: every key of extra is copied
MergeExtraAll(f, extra) ==
    [k \in DOMAIN f \cup DOMAIN extra |-> IF k \in DOMAIN extra THEN extra[k] ELSE f[k]]

\* lines 1052-1056: the keys of extra other than id and name are copied to f
MergeExtra(f, extra) ==
    [k \in DOMAIN f \cup (DOMAIN extra \ {"id", "name"}) |->
        IF k \in DOMAIN extra \ {"id", "name"} THEN extra[k] ELSE f[k]]

\* lines 1043-1056
MergeSigByRound(rounds, sig_by_round) ==
    [r \in DOMAIN rounds |->
        IF rounds[r].round_number \notin DOMAIN sig_by_round THEN rounds[r]
        ELSE LET adders == Adders(sig_by_round[rounds[r].round_number])
                 fighters == rounds[r].fighters
             IN [round_number |-> rounds[r].round_number,
                 fighters |-> [i \in DOMAIN fighters |->
                                  IF fighters[i].id \in DOMAIN adders
                                  THEN MergeExtra(fighters[i], adders[fighters[i].id])
                                  ELSE fighters[i]]]]

\* _extract_sig_strikes_rounds
ExtractSigStrikesRounds(sections, rounds) ==
    IF rounds = <<>> \/ SigRoundsTable(sections) = 0 THEN rounds
    ELSE LET body == sections[SigRoundsTable(sections)].body
         IN MergeSigByRound(rounds, SigByRound(body, Len(body)))

----------------------------------------------------------------------------
(* Bounds and the pages the model is run on *)

MaxSectionRows == 1     \* rows of one section table of a stats page
MaxFights == 2          \* rows of the history table of the fighter pipeline
MaxStatsRows == 3       \* rows of the table parsed alone by _parse_stats_table
MaxHistoryRows == 2     \* rows of the table parsed alone by _parse_fight_history_table
MaxUfcRows == 3         \* rows of a UFC Stats fighter page
MaxCols == 3            \* th cells handed to _header_map
MaxLen == 6             \* characters of the text handed to _parse_stat_fraction
MaxUrlParts == 5        \* pieces of the url handed to _extract_id_from_url
MaxDateParts == 5       \* pieces of the text handed to _parse_schedule_date
MaxHeaderParts == 3     \* pieces of the th text handed to _normalize_header
MaxCardFights == 2      \* fights of the card of one event
MaxScheduleRows == 2    \* tbody rows of one table of a schedule page
MaxNameEls == 2         \* name elements found in one container of a fighter link
MaxBoxes == 3          \* titled boxes on a fighter stats page
MaxHistoryTables == 3  \* tables on a fighter history page
MaxUfcEls == 4         \* sections and tables on a fight page
MaxStatLen == 5        \* characters of one stat cell
MaxRuns == 4           \* runs of crawl_all and retry_failed_items on one scraper
MaxEvents == 2         \* events of the schedule in one run of crawl_all
MaxListing == 2        \* fighter urls listed, and fight urls of one fighter
MaxRetries == 4        \* max_retries of a call of _get_page
MaxRawUrls == 4        \* urls in fighter_urls_raw
MaxRoundEls == 3       \* children of the per-round breakdown table
MaxRounds == 2         \* rounds of a fight

StatsHeaders == <<<<"D", "a", "t", "e">>, <<"O", "p", "p", "o", "n", "e", "n", "t">>, <<"R", "e", "s", ".">>, <<"S", "D", "B", "L", "/", "A">>, <<"E", "v", "e", "n", "t">>>>
\* no Event column; a padded header; a lower-case "date" column
StatsHeadersNoEvent == <<<<" ", "D", "a", "t", "e", " ">>, <<"O", "p", "p", "o", "n", "e", "n", "t">>, <<"d", "a", "t", "e">>>>

\* same event (id 7) under two dates and opponents; no event link; an event
\* link without an id and a "-" date
StatsRowA == <<Cell(<<"a">>),
      LinkCell(<<"x">>, <<"/", "f", "/", "_", "/", "i", "d", "/", "3", "/", "x">>),
      Cell(<<"W">>),
      Cell(<<"1">>),
      LinkCell(<<"e">>, <<"/", "e", "/", "_", "/", "i", "d", "/", "7">>)>>
StatsRowB == <<Cell(<<"b">>),
      LinkCell(<<"y">>, <<"/", "f", "/", "_", "/", "i", "d", "/", "4", "/", "y">>),
      Cell(<<"L">>),
      Cell(<<"2">>),
      LinkCell(<<"e">>, <<"/", "e", "/", "_", "/", "i", "d", "/", "7">>)>>
StatsRowC == <<Cell(<<"a">>),
      Cell(<<"x">>),
      Cell(<<"W">>),
      Cell(<<"3">>),
      Cell(<<"e">>)>>
StatsRowD == <<Cell(<<"-">>),
      Cell(<<"x">>),
      Cell(<<"-">>),
      Cell(<<" ", "4">>),
      LinkCell(<<"e">>, <<"/", "e">>)>>
\* a row with one cell more than the header row, and a short row
StatsRowLong == <<Cell(<<"a">>),
      Cell(<<"x">>),
      Cell(<<"D">>),
      Cell(<<"5">>),
      Cell(<<"e">>),
      Cell(<<"6">>)>>
StatsRowShort == <<Cell(<<"b">>),
      Cell(<<"-">>)>>

SectionRowPool == {StatsRowA, StatsRowB, StatsRowC, StatsRowD}
StatsRowPool == {StatsRowA, StatsRowB, StatsRowC, StatsRowLong, StatsRowShort, <<>>}

HistoryHeaderRow == <<<<"D", "a", "t", "e">>, <<"O", "p", "p", "o", "n", "e", "n", "t">>, <<"R", "e", "s", ".">>, <<"D", "e", "c", "i", "s", "i", "o", "n">>, <<"R", "n", "d">>, <<"T", "i", "m", "e">>, <<"E", "v", "e", "n", "t">>>>
\* "Result", an unrecognized header, "Event" twice
HistoryHeaderRowAlt == <<<<"D", "a", "t", "e">>, <<"O", "p", "p", "o", "n", "e", "n", "t">>, <<"R", "e", "s", "u", "l", "t">>, <<"T", "V">>, <<"E", "v", "e", "n", "t">>, <<"E", "v", "e", "n", "t">>>>
\* fewer than three headers: the fallback layout is used
HistoryHeaderRowShort == <<<<"D", "a", "t", "e">>, <<"O", "p", "p", "o", "n", "e", "n", "t">>>>

HistoryRowA == <<Cell(<<"a">>),
      LinkCell(<<"x">>, <<"/", "f", "/", "_", "/", "i", "d", "/", "3", "/", "x">>),
      Cell(<<"w">>),
      Cell(<<"K", "O">>),
      Cell(<<"1">>),
      Cell(<<"0", ":", "3", "0">>),
      LinkCell(<<"e">>, <<"/", "e", "/", "_", "/", "i", "d", "/", "7">>)>>
HistoryRowB == <<Cell(<<"a">>),
      Cell(<<"x">>),
      Cell(<<"L">>),
      Cell(<<"S", "u", "b">>),
      Cell(<<"2">>),
      Cell(<<"1", ":", "0", "0">>),
      Cell(<<"e">>)>>
HistoryRowC == <<Cell(<<"c">>),
      LinkCell(<<"z">>, <<"/", "f", "/", "_", "/", "i", "d", "/", "5", "/", "z">>),
      Cell(<<"n", "c">>),
      Cell(<<"-">>),
      Cell(<<"3">>),
      Cell(<<"5", ":", "0", "0">>),
      LinkCell(<<"f">>, <<"/", "e", "/", "_", "/", "i", "d", "/", "9">>)>>
\* eight cells, and two cells
HistoryRowLong == <<Cell(<<"b">>),
      Cell(<<"y">>),
      Cell(<<"W", "i", "n">>),
      Cell(<<"D", "e", "c">>),
      Cell(<<"3">>),
      Cell(<<"5", ":", "0", "0">>),
      LinkCell(<<"e">>, <<"i", "d", "/", "8">>),
      Cell(<<"e", "x", "t", "r", "a">>)>>
HistoryRowShort == <<Cell(<<" ", "b", " ", " ", "c", " ">>),
      LinkCell(<<>>, <<"/", "f", "/", "x">>)>>

\* three cells: a result code in lower case between spaces, and another text
HistoryRowNc == <<Cell(<<"d">>), Cell(<<"y">>), Cell(<<" ", "n", "c", NBSP>>)>>
HistoryRowDraw == <<Cell(<<"d">>), Cell(<<"y">>), Cell(<<"D", " ", " ", "r", "a", "w", " ">>)>>

FightRowPool == {HistoryRowA, HistoryRowB, HistoryRowC}
HistoryRowPool == {HistoryRowA, HistoryRowB, HistoryRowLong, HistoryRowShort, <<>>,
                   HistoryRowNc, HistoryRowDraw}

IdleTable == [hasHead |-> FALSE, hasBody |-> FALSE, headers |-> <<>>, rows |-> <<>>]

SectionTables == {Table(StatsHeaders, rows) : rows \in SeqUpTo(SectionRowPool, MaxSectionRows)}
Box(title, table) == [hasTitle |-> TRUE, title |-> title, hasTable |-> TRUE, table |-> table]
SectionTitles == <<<<"S", "t", "r", "i", "k", "i", "n", "g">>, <<"C", "l", "i", "n", "c", "h">>, <<"G", "r", "o", "u", "n", "d">>>>

\* the boxes of a stats page: per section, in page order, a titled table or nothing
StatsPages ==
    {Flatten([i \in DOMAIN Sections |->
                 IF pick[i] = IdleTable THEN <<>> ELSE <<Box(SectionTitles[i], pick[i])>>]) :
        pick \in [DOMAIN Sections -> SectionTables \cup {IdleTable}]}

HistoryPages == {<<Table(HistoryHeaderRow, rows)>> : rows \in SeqUpTo(FightRowPool, MaxFights)}

\* what scrape_fighter_history returns for these pages
HistoryPageFights == {HistoryFights(page) : page \in HistoryPages}

StatsTables ==
    {Table(h, rows) : h \in {StatsHeaders, StatsHeadersNoEvent},
                      rows \in SeqUpTo(StatsRowPool, MaxStatsRows)}

\* scrape_fighter_history hands over only tables that have a thead; a table
\* without a tbody has no body rows
HistoryTables ==
    {Table(h, rows) : h \in {HistoryHeaderRow, HistoryHeaderRowAlt, HistoryHeaderRowShort},
                      rows \in SeqUpTo(HistoryRowPool, MaxHistoryRows)}
    \cup {[hasHead |-> TRUE, hasBody |-> FALSE, headers |-> h, rows |-> <<>>] :
            h \in {HistoryHeaderRow, HistoryHeaderRowAlt, HistoryHeaderRowShort}}

UfcRow(onclick, cols) == [hasOnclick |-> TRUE, onclick |-> onclick, cols |-> cols]
\* a fight row; a row with an onclick and no cells; a spacer row with one
\* cell and no onclick; a row whose onclick is empty
UfcRowPool ==
    {UfcRow(<<"d", "o", "N", "a", "v", "(", "'", "/", "f", "/", "a", "'", ")">>, <<<<"W">>, <<"x">>, <<"0">>, <<"1">>, <<"0">>, <<"0">>, <<"e">>, <<"K", "O">>, <<"1">>, <<"0", ":", "3", "0">>>>),
     UfcRow(<<"d", "o", "N", "a", "v", "(", "'", "/", "f", "/", "b", "'", ")">>, <<>>),
     [hasOnclick |-> FALSE, onclick |-> <<>>, cols |-> <<<<>>>>],
     UfcRow(<<>>, <<<<"W">>, <<"x">>, <<"0">>, <<"1">>, <<"0">>, <<"0">>, <<"e">>, <<"K", "O">>, <<" ", "2", " ">>, <<"1", ":", "0", "0">>>>)}

HeaderTexts == {<<"D", "a", "t", "e">>, <<" ", "d", "a", "t", "e", " ">>, <<"E", "v", "e", "n", "t">>, <<"E", "V", "E", "N", "T">>, <<"F", "i", "g", "h", "t", " ", " ", "O", "f">>}

\* URLs are built from these pieces
UrlParts == {<<"/", "i", "d", "/">>, <<"1">>, <<"2">>, <<"/">>, <<"a">>, <<"i", "d">>}

FractionChars == {"1", "2", " ", "o", "f", "-", "/"}

\* date texts are built from these pieces
DateParts == {<<"S", "e", "p">>, <<"s", "E", "P">>, <<"D", "e", "c">>, <<"X", "y", "z">>,
              <<" ">>, <<"2">>, <<"t">>}
Years == {2024, 999}

\* th texts are built from these pieces
HeaderParts == {<<"R", "e", "s">>, <<"R", "e", "s", "u", "l", "t">>,
                <<"D", "e", "c", "i", "s", "i", "o", "n">>, <<"M", "E", "T", "H", "O", "D">>,
                <<"R", "n", "d">>, <<"R", "o", "u", "n", "d">>, <<"T", "i", "m", "e">>,
                <<".">>, <<" ">>, <<"1">>, <<"x">>, <<NBSP>>}

NameJoLee == <<"J", "o", " ", "L", "e", "e">>
NameARe == <<"A", " ", " ", "R", "e_acute", " ">>
NameAl == <<"A", "l">>
NameLists == {<<>>, <<NameJoLee>>, <<NameJoLee, NameARe>>, <<NameARe, NameJoLee>>,
              <<NameAl, NameJoLee>>, <<NameJoLee, <<>>>>, <<<<" ">>, NameARe>>,
              <<NameJoLee, NameARe, NameAl>>, <<NameJoLee, NameJoLee>>}
FotnTexts == {<<>>,
              <<"L", "e", "e", " ", "v", "s", " ", "R", "e">>,
              <<"R", "E_acute", " ", "v", "s", ".", " ", "L", "E", "E">>,
              <<"J", "o", " ", "L", "e", "e">>,
              <<"A", " ", "R", "e">>,
              <<"K", "l", "e", "e", "-", "W", "a", "r", "e">>,
              <<"A", "l", "i">>}

SchedulePast == <<<<"D", "a", "t", "e">>, <<"E", "v", "e", "n", "t">>, <<"L", "o", "c", "a", "t", "i", "o", "n">>, <<"F", "i", "g", "h", "t", " ", "o", "f", " ", "t", "h", "e", " ", "N", "i", "g", "h", "t">>>>
ScheduleFotn == <<<<" ", "D", "A", "T", "E", " ">>, <<"E", "V", "E", "N", "T">>, <<"L", "O", "C", "A", "T", "I", "O", "N">>, <<"F", "O", "T", "N">>>>
ScheduleUpcoming == <<<<"D", "a", "t", "e">>, <<"E", "v", "e", "n", "t">>, <<"L", "o", "c", "a", "t", "i", "o", "n">>, <<"T", "i", "m", "e">>>>
ScheduleNoLocation == <<<<"D", "a", "t", "e">>, <<"E", "v", "e", "n", "t">>, <<"F", "i", "g", "h", "t", " ", "o", "f", " ", "t", "h", "e", " ", "N", "i", "g", "h", "t">>>>
ScheduleHeaders == {SchedulePast, ScheduleFotn, ScheduleUpcoming, ScheduleNoLocation}

ScheduleRowUfc ==
    <<Cell(<<"S", "e", "p", " ", "2", "2">>), LinkCell(<<"U", "F", "C", " ", "1">>, <<"/", "m", "m", "a", "/", "f", "i", "g", "h", "t", "c", "e", "n", "t", "e", "r", "/", "_", "/", "i", "d", "/", "1", "/", "l", "e", "a", "g", "u", "e", "/", "u", "f", "c">>),
      Cell(<<"L", "a", "s", " ", " ", "V", "e", "g", "a", "s">>), Cell(<<"L", "e", "e", " ", "v", "s", " ", "R", "e">>)>>
ScheduleRowPfl ==
    <<Cell(<<"D", "e", "c", " ", "2">>), LinkCell(<<>>, <<"/", "m", "m", "a", "/", "f", "i", "g", "h", "t", "c", "e", "n", "t", "e", "r", "/", "_", "/", "i", "d", "/", "2", "/", "l", "e", "a", "g", "u", "e", "/", "p", "f", "l">>), Cell(<<>>), Cell(<<>>)>>
ScheduleRowNoLeague ==
    <<Cell(<<>>), LinkCell(<<"E", "v", "e", "n", "t", " ", "3">>, <<"/", "m", "m", "a", "/", "f", "i", "g", "h", "t", "c", "e", "n", "t", "e", "r", "/", "_", "/", "i", "d", "/", "3">>), Cell(<<"R", "i", "o">>), Cell(<<"-">>)>>
ScheduleRowOtherLink ==
    <<Cell(<<"S", "e", "p", " ", "2">>), LinkCell(<<"E", "v", "e", "n", "t", " ", "4">>, <<"/", "m", "m", "a", "/", "e", "v", "e", "n", "t", "/", "4", "/", "l", "e", "a", "g", "u", "e", "/", "u", "f", "c">>), Cell(<<"R", "i", "o">>), Cell(<<>>)>>
ScheduleRowUfc9 ==
    <<Cell(<<"D", "e", "c", " ", "2", "2">>), LinkCell(<<"U", "F", "C", " ", "9">>, <<"/", "m", "m", "a", "/", "f", "i", "g", "h", "t", "c", "e", "n", "t", "e", "r", "/", "_", "/", "i", "d", "/", "9", "/", "l", "e", "a", "g", "u", "e", "/", "u", "f", "c">>),
      Cell(<<"R", "i", "o">>), Cell(<<>>)>>
ScheduleRowPool == {ScheduleRowUfc, ScheduleRowPfl, ScheduleRowNoLeague,
                    ScheduleRowOtherLink}

\* a page is two tables: any table of the pools, and one of these, in either order
ScheduleSecondTables == {Table(SchedulePast, <<ScheduleRowUfc>>),
                         Table(ScheduleUpcoming, <<ScheduleRowUfc9>>),
                         Table(ScheduleFotn, <<ScheduleRowUfc9, ScheduleRowPfl>>)}
LeagueSets == {{}, {"ufc"}, {"ufc", "pfl"}}
ScheduleYears == {2024}

NameElTexts == {<<>>, <<"F", "u", "l", "l", " ", "P", "r", "o", "f", "i", "l", "e">>, <<"J", "o", " ", " ", "L", "e", "e">>}
LinkTexts == {<<>>, <<" ", "p", "r", "o", "f", "i", "l", "e">>, <<"A", " ", "R", "e">>}
FighterHrefs == {<<>>, <<"/", "m", "m", "a", "/", "f", "i", "g", "h", "t", "e", "r", "/", "_", "/", "i", "d", "/", "1", "/", "j", "o", "-", "l", "e", "e">>, <<"/", "m", "m", "a", "/", "f", "i", "g", "h", "t", "e", "r", "/", "_", "/", "i", "d", "/", "2", "/">>,
                 <<"/", "m", "m", "a", "/", "f", "i", "g", "h", "t", "e", "r", "/", "_", "/", "i", "d", "/", "3", "/", "a", "l", "-", "-", "i", "A", "/">>}

(* Pages on which more than one section or table matches a locator *)

\* two boxes titled "striking" with different tables, one without a table,
\* a box of another section, and a box without a title
BoxStrikingA == Box(<<"S", "t", "r", "i", "k", "i", "n", "g">>, Table(StatsHeaders, <<StatsRowA>>))
BoxStrikingB == Box(<<" ", "s", "t", "r", "i", "k", "i", "n", "g", " ">>, Table(StatsHeaders, <<StatsRowB>>))
BoxStrikingBare == [hasTitle |-> TRUE, title |-> <<"S", "t", "r", "i", "k", "i", "n", "g">>, hasTable |-> FALSE,
                    table |-> IdleTable]
BoxClinch == Box(<<"C", "l", "i", "n", "c", "h">>, Table(StatsHeaders, <<StatsRowC>>))
BoxUntitled == [hasTitle |-> FALSE, title |-> <<>>, hasTable |-> TRUE,
                table |-> Table(StatsHeaders, <<StatsRowD>>)]
BoxPool == {BoxStrikingA, BoxStrikingB, BoxStrikingBare, BoxClinch, BoxUntitled}

\* two tables with the history headers, a table with another header, and a
\* table without thead
HistoryTableA == Table(HistoryHeaderRow, <<HistoryRowA>>)
HistoryTableB == Table(HistoryHeaderRow, <<HistoryRowC, HistoryRowB>>)
HistoryTableOther == Table(<<<<"T", "V">>>>, <<HistoryRowA>>)
HistoryTableHeadless == [hasHead |-> FALSE, hasBody |-> TRUE, headers |-> <<>>,
                         rows |-> <<HistoryRowB>>]
HistoryTablePool == {HistoryTableA, HistoryTableB, HistoryTableOther, HistoryTableHeadless}

\* the elements of a fight page
FighterLinkA == [name |-> <<" ", "A", "l", " ">>, href |-> <<"/", "f", "i", "g", "h", "t", "e", "r", "-", "d", "e", "t", "a", "i", "l", "s", "/", "a", "1">>]
FighterLinkB == [name |-> <<"B", "o">>, href |-> <<"/", "f", "i", "g", "h", "t", "e", "r", "-", "d", "e", "t", "a", "i", "l", "s", "/", "b", "2">>]
UfcTotalsHead == <<"F", "i", "g", "h", "t", "e", "r", " ", "K", "D", " ", "S", "i", "g", ".", " ", "s", "t", "r", ".", " ", "S", "i", "g", ".", " ", "s", "t", "r", ".", " ", "%", " ", "T", "o", "t", "a", "l", " ", "s", "t", "r", ".", " ", "T", "d", " ", "T", "d", " ", "%", " ", "S", "u", "b", ".", " ", "a", "t", "t", " ", "R", "e", "v", ".", " ", "C", "t", "r", "l">>
UfcSigHead == <<"F", "i", "g", "h", "t", "e", "r", " ", "S", "i", "g", ".", " ", "s", "t", "r", " ", "S", "i", "g", ".", " ", "s", "t", "r", ".", " ", "%", " ", "H", "e", "a", "d", " ", "B", "o", "d", "y", " ", "L", "e", "g", " ", "D", "i", "s", "t", "a", "n", "c", "e", " ", "C", "l", "i", "n", "c", "h", " ", "G", "r", "o", "u", "n", "d">>
UfcTotalsA == UfcTable(UfcTotalsHead, <<FighterLinkA, FighterLinkB>>,
     <<<<<<"1">>, <<"0">>>>,
       <<<<"3", " ", "o", "f", " ", "5">>, <<"1", " ", "o", "f", " ", "2">>>>,
       <<<<"6", "0", "%">>, <<"5", "0", "%">>>>,
       <<<<"4", " ", "o", "f", " ", "6">>, <<"2", " ", "o", "f", " ", "3">>>>,
       <<<<"1", " ", "o", "f", " ", "2">>, <<"0", " ", "o", "f", " ", "0">>>>,
       <<<<"5", "0", "%">>, <<"-", "-", "-">>>>,
       <<<<"0">>, <<"1">>>>,
       <<<<"0">>, <<"0">>>>,
       <<<<"1", ":", "0", "5">>, <<"0", ":", "0", "0">>>>>>)
UfcTotalsB == UfcTable(UfcTotalsHead, <<FighterLinkB>>,
     <<<<<<"2">>>>,
       <<<<"7", " ", "o", "f", " ", "9">>>>,
       <<<<"7", "7", "%">>>>,
       <<<<"8", " ", "o", "f", " ", "9">>>>,
       <<<<"0", " ", "o", "f", " ", "1">>>>,
       <<<<"0", "%">>>>,
       <<<<"1">>>>,
       <<<<"x">>>>,
       <<<<"-", "-">>>>>>)
UfcSigTable == UfcTable(UfcSigHead, <<FighterLinkA, FighterLinkB>>,
     <<<<<<"3", " ", "o", "f", " ", "5">>, <<"1", " ", "o", "f", " ", "2">>>>,
       <<<<"6", "1", "%">>, <<"5", "1", "%">>>>,
       <<<<"2", " ", "o", "f", " ", "3">>, <<"1", " ", "o", "f", " ", "1">>>>,
       <<<<"1", " ", "o", "f", " ", "1">>, <<"0", " ", "o", "f", " ", "1">>>>,
       <<<<"0", " ", "o", "f", " ", "1">>, <<"0", " ", "o", "f", " ", "0">>>>,
       <<<<"3", " ", "o", "f", " ", "4">>, <<"1", " ", "o", "f", " ", "2">>>>,
       <<<<"0", " ", "o", "f", " ", "1">>, <<"0", " ", "o", "f", " ", "0">>>>,
       <<<<"0", " ", "o", "f", " ", "0">>, <<"0", " ", "o", "f", " ", "0">>>>>>)
UfcTableHeadless == [UfcTotalsB EXCEPT !.hasHead = FALSE, !.text = <<>>]
UfcElPool == {UfcSection(<<"T", "o", "t", "a", "l", "s">>), UfcSection(<<" ", "S", "i", "g", "n", "i", "f", "i", "c", "a", "n", "t", " ", "S", "t", "r", "i", "k", "e", "s", " ">>),
              UfcTotalsA, UfcTotalsB, UfcSigTable, UfcTableHeadless}

StatChars == {"0", "1", "2", "%", ":", "-", " "}

\* the pages of a fighter that could be fetched
FighterFetches == {{}, {"bio", "stats", "history"}, FighterPages}

\* urls of the UFC Stats site: two fighter urls and two fight urls end in the same id
UfcFighterUrls == {<<"/", "f", "/", "a">>, <<"/", "g", "/", "a">>, <<"/", "f", "/", "b">>}
UfcFightUrls == {<<"/", "d", "/", "x">>, <<"/", "e", "/", "x">>, <<"/", "d", "/", "y">>}
UfcEventUrls == {<<>>, <<"/", "v", "/", "m">>, <<"/", "w", "/", "m">>}
ScrapeOutcomes == {"raised", "empty", "data"}

GetOutcomes == {"ok", "request_error", "rate_limit", "unexpected"}

\* fighter urls of an event page: fighter 1 by id only, with and without the
\* final "/", and with a name; fighter 2 by id only and with a name; a url
\* without a numeric id
RawFighterUrls == {BaseUrl \o <<"/", "m", "m", "a", "/", "f", "i", "g", "h", "t", "e", "r", "/", "_", "/", "i", "d", "/", "1">>, BaseUrl \o <<"/", "m", "m", "a", "/", "f", "i", "g", "h", "t", "e", "r", "/", "_", "/", "i", "d", "/", "1", "/">>,
                   BaseUrl \o <<"/", "m", "m", "a", "/", "f", "i", "g", "h", "t", "e", "r", "/", "_", "/", "i", "d", "/", "1", "/", "a", "l">>, BaseUrl \o <<"/", "m", "m", "a", "/", "f", "i", "g", "h", "t", "e", "r", "/", "_", "/", "i", "d", "/", "2">>,
                   BaseUrl \o <<"/", "m", "m", "a", "/", "f", "i", "g", "h", "t", "e", "r", "/", "_", "/", "i", "d", "/", "2", "/", "b", "o">>, BaseUrl \o <<"/", "m", "m", "a", "/", "f", "i", "g", "h", "t", "e", "r", "/", "_", "/", "i", "d", "/", "x">>}

\* the links of the per-round breakdown rows carry longer names
FighterLinkARound == [FighterLinkA EXCEPT !.name = <<"A", "l", " ", "T", ".">>]
FighterLinkBRound == [FighterLinkB EXCEPT !.name = <<"B", "o", " ", "S", ".">>]
\* children of the breakdown table: round headers, a row with both fighters
\* in the other order, a row with one fighter, a row of 8 cells, an empty body
RoundElPool == {RoundHeader(<<"R", "o", "u", "n", "d", " ", "1">>), RoundHeader(<<" ", "R", "o", "u", "n", "d", " ", " ", "2", " ">>), RoundHeader(<<"T", "o", "t", "a", "l", "s">>),
                RoundBody(<<FighterLinkBRound, FighterLinkARound>>, UfcSigTable.cols),
                RoundBody(<<FighterLinkARound>>, UfcSigTable.cols),
                RoundBody(<<FighterLinkARound, FighterLinkBRound>>, SubSeq(UfcSigTable.cols, 1, 7)),
                RoundBodyEmpty}
GeneralRoundsSection == RoundSection(<<" ", "P", "e", "r", " ", "r", "o", "u", "n", "d", " ">>, UfcTotalsHead, <<>>)
TotalsSection == [RoundSection(<<>>, UfcSigHead, <<>>) EXCEPT !.hasLink = FALSE]
NoTableSection == [RoundSection(<<"P", "e", "r", " ", "r", "o", "u", "n", "d">>, <<>>, <<>>) EXCEPT !.hasTable = FALSE, !.hasHead = FALSE]
RoundPages == {<<>>, <<GeneralRoundsSection>>, <<TotalsSection, NoTableSection>>}
                 \cup {<<GeneralRoundsSection, RoundSection(<<"P", "e", "r", " ", "r", "o", "u", "n", "d">>, UfcSigHead, body)>> :
                          body \in SeqUpTo(RoundElPool, MaxRoundEls)}
\* the rounds of the general per-round table
GeneralRounds ==
    {ExtractGeneralRoundStatsFromRow(n, [names |-> UfcTotalsA.names, cols |-> UfcTotalsA.cols]) :
        n \in 1..MaxRounds}

----------------------------------------------------------------------------
(* The fighter pipeline: ESPNMMAScraper.scrape_complete_fighter *)

IdleStats == stats_table = IdleTable /\ stats_out = EmptyPayload
IdleHistory == /\ hist_table = IdleTable /\ hist_out = <<>>
               /\ ufc_rows = <<>> /\ ufc_fights = <<>>
IdleHeader == header_cells = <<>> /\ hmap = EmptyDict
IdleFraction == frac_text = <<>> /\ frac_out = <<0, 0>>
IdlePipeline == stats_sections = EmptyDict /\ fights = <<>>
IdleId == id_url = [given |-> FALSE, text |-> <<>>] /\ id_out = ""
IdleDate == date_text = <<>> /\ date_year = 0 /\ date_out = NoneV
IdleNormalize == norm_text = <<>> /\ norm_out = ""
IdleFotn == fotn_txt = <<>> /\ card_fights = <<>>
IdleSchedule == sched_page = <<>> /\ sched_year = 0 /\ allowed_leagues = {} /\ sched_events = <<>> /\ crawl_events = <<>>
IdleName == name_anchor = [comp |-> <<>>, card |-> <<>>, text |-> <<>>, href |-> <<>>] /\ name_out = ""
IdleLocate == stats_page = <<>> /\ history_page = <<>> /\ ufc_doc = <<>> /\ ufc_totals = <<>>
IdleStat == stat_text = <<>> /\ stat_out = 0
IdleCrawl == ledger = EmptyLedger /\ jsonl = EmptyJsonl /\ crawl = IdleCrawlState
IdleUfcCrawl == ufc_seen = NothingSeen /\ ufc_jsonl = NothingWritten /\ ufc_crawl = [listing |-> <<>>, fighters_todo |-> <<>>, fights_todo |-> <<>>]
IdleGetPage == page_call = [max_retries |-> 0, attempt |-> 0, gets |-> <<>>] /\ page_result = "pending"
IdleFighterUrls == raw_urls = <<>> /\ event_fighter_urls = <<>>
IdleSigRounds == round_page = <<>> /\ existing_rounds = <<>> /\ rounds_out = <<>>

Init ==
    /\ pc = "start"
    /\ IdlePipeline /\ IdleStats /\ IdleHistory /\ IdleHeader /\ IdleFraction /\ IdleId
    /\ IdleDate /\ IdleNormalize /\ IdleFotn /\ IdleSchedule /\ IdleName /\ IdleLocate
    /\ IdleStat /\ IdleCrawl /\ IdleUfcCrawl /\ IdleGetPage /\ IdleFighterUrls
    /\ IdleSigRounds

\* stats_data = self.scrape_fighter_stats(fighter_url);
\* stats_sections = stats_data.get('stats_sections', {})
ScrapeFighterStats ==
    /\ pc = "start"
    /\ \/ stats_sections' = EmptyDict                 \* the page fetch failed
       \/ \E page \in StatsPages : stats_sections' = StatsSections(page)
    /\ pc' = "stats"
    /\ UNCHANGED <<fights, stats_table, stats_out, hist_table, hist_out, ufc_rows,
                   ufc_fights, header_cells, hmap, frac_text, frac_out, id_url, id_out,
                   date_text, date_year, date_out, norm_text, norm_out, fotn_txt,
                   card_fights, sched_page, sched_year, allowed_leagues, sched_events,
                   crawl_events, name_anchor, name_out, stats_page, history_page,
                   ufc_doc, ufc_totals, stat_text, stat_out, ledger, jsonl, crawl,
                   ufc_seen, ufc_jsonl, ufc_crawl, page_call, page_result, raw_urls,
                   event_fighter_urls, round_page, existing_rounds, rounds_out>>

\* history_data = self.scrape_fighter_history(fighter_url);
\* fights_list = history_data.get('fights', [])
ScrapeFighterHistory ==
    /\ pc = "stats"
    /\ \/ fights' = <<>>                              \* the page fetch failed
       \/ \E page_fights \in HistoryPageFights : fights' = page_fights
    /\ pc' = "history"
    /\ UNCHANGED <<stats_sections, stats_table, stats_out, hist_table, hist_out,
                   ufc_rows, ufc_fights, header_cells, hmap, frac_text, frac_out,
                   id_url, id_out, date_text, date_year, date_out, norm_text, norm_out,
                   fotn_txt, card_fights, sched_page, sched_year, allowed_leagues,
                   sched_events, crawl_events, name_anchor, name_out, stats_page,
                   history_page, ufc_doc, ufc_totals, stat_text, stat_out, ledger,
                   jsonl, crawl, ufc_seen, ufc_jsonl, ufc_crawl, page_call,
                   page_result, raw_urls, event_fighter_urls, round_page,
                   existing_rounds, rounds_out>>

\* self._attach_stats_to_fights(fights_list, stats_sections)
AttachStats ==
    /\ pc = "history"
    /\ fights' = AttachStatsToFights(fights, stats_sections)
    /\ pc' = "attached"
    /\ UNCHANGED <<stats_sections, stats_table, stats_out, hist_table, hist_out,
                   ufc_rows, ufc_fights, header_cells, hmap, frac_text, frac_out,
                   id_url, id_out, date_text, date_year, date_out, norm_text, norm_out,
                   fotn_txt, card_fights, sched_page, sched_year, allowed_leagues,
                   sched_events, crawl_events, name_anchor, name_out, stats_page,
                   history_page, ufc_doc, ufc_totals, stat_text, stat_out, ledger,
                   jsonl, crawl, ufc_seen, ufc_jsonl, ufc_crawl, page_call,
                   page_result, raw_urls, event_fighter_urls, round_page,
                   existing_rounds, rounds_out>>

Next == ScrapeFighterStats \/ ScrapeFighterHistory \/ AttachStats

Spec == Init /\ [][Next]_vars

----------------------------------------------------------------------------
(* _parse_stats_table on one table *)

InitStats ==
    /\ pc = "stats_table"
    /\ stats_table \in StatsTables /\ stats_out = EmptyPayload
    /\ IdlePipeline /\ IdleHistory /\ IdleHeader /\ IdleFraction /\ IdleId /\ IdleDate
    /\ IdleNormalize /\ IdleFotn /\ IdleSchedule /\ IdleName /\ IdleLocate /\ IdleStat
    /\ IdleCrawl /\ IdleUfcCrawl /\ IdleGetPage /\ IdleFighterUrls /\ IdleSigRounds

ParseStats ==
    /\ pc = "stats_table"
    /\ stats_out' = ParseStatsTable(stats_table)
    /\ pc' = "stats_table_done"
    /\ UNCHANGED <<stats_sections, fights, stats_table, hist_table, hist_out, ufc_rows,
                   ufc_fights, header_cells, hmap, frac_text, frac_out, id_url, id_out,
                   date_text, date_year, date_out, norm_text, norm_out, fotn_txt,
                   card_fights, sched_page, sched_year, allowed_leagues, sched_events,
                   crawl_events, name_anchor, name_out, stats_page, history_page,
                   ufc_doc, ufc_totals, stat_text, stat_out, ledger, jsonl, crawl,
                   ufc_seen, ufc_jsonl, ufc_crawl, page_call, page_result, raw_urls,
                   event_fighter_urls, round_page, existing_rounds, rounds_out>>

NextStats == ParseStats

SpecStats == InitStats /\ [][NextStats]_vars

----------------------------------------------------------------------------
(* _parse_fight_history_table on one table, and the fight-history loop of  *)
(* UFCStatsScraper.scrape_fighter on the rows of one page                  *)

InitHistory ==
    /\ \/ /\ pc = "history_table"
          /\ hist_table \in HistoryTables
          /\ ufc_rows = <<>>
       \/ /\ pc = "ufc_fighter"
          /\ hist_table = IdleTable
          /\ ufc_rows \in SeqUpTo(UfcRowPool, MaxUfcRows)
    /\ hist_out = <<>> /\ ufc_fights = <<>>
    /\ IdlePipeline /\ IdleStats /\ IdleHeader /\ IdleFraction /\ IdleId /\ IdleDate
    /\ IdleNormalize /\ IdleFotn /\ IdleSchedule /\ IdleName /\ IdleLocate /\ IdleStat
    /\ IdleCrawl /\ IdleUfcCrawl /\ IdleGetPage /\ IdleFighterUrls /\ IdleSigRounds

ParseFightHistory ==
    /\ pc = "history_table"
    /\ hist_out' = ParseFightHistoryTable(hist_table)
    /\ pc' = "history_table_done"
    /\ UNCHANGED <<stats_sections, fights, stats_table, stats_out, hist_table,
                   ufc_rows, ufc_fights, header_cells, hmap, frac_text, frac_out,
                   id_url, id_out, date_text, date_year, date_out, norm_text, norm_out,
                   fotn_txt, card_fights, sched_page, sched_year, allowed_leagues,
                   sched_events, crawl_events, name_anchor, name_out, stats_page,
                   history_page, ufc_doc, ufc_totals, stat_text, stat_out, ledger,
                   jsonl, crawl, ufc_seen, ufc_jsonl, ufc_crawl, page_call,
                   page_result, raw_urls, event_fighter_urls, round_page,
                   existing_rounds, rounds_out>>

UfcScrapeFighter ==
    /\ pc = "ufc_fighter"
    /\ ufc_fights' = UfcFights(ufc_rows)
    /\ pc' = "ufc_fighter_done"
    /\ UNCHANGED <<stats_sections, fights, stats_table, stats_out, hist_table,
                   hist_out, ufc_rows, header_cells, hmap, frac_text, frac_out, id_url,
                   id_out, date_text, date_year, date_out, norm_text, norm_out,
                   fotn_txt, card_fights, sched_page, sched_year, allowed_leagues,
                   sched_events, crawl_events, name_anchor, name_out, stats_page,
                   history_page, ufc_doc, ufc_totals, stat_text, stat_out, ledger,
                   jsonl, crawl, ufc_seen, ufc_jsonl, ufc_crawl, page_call,
                   page_result, raw_urls, event_fighter_urls, round_page,
                   existing_rounds, rounds_out>>

NextHistory == ParseFightHistory \/ UfcScrapeFighter

SpecHistory == InitHistory /\ [][NextHistory]_vars

----------------------------------------------------------------------------
(* _header_map on one header row *)

InitHeader ==
    /\ pc = "header_map"
    /\ header_cells \in SeqUpTo(HeaderTexts, MaxCols) /\ hmap = EmptyDict
    /\ IdlePipeline /\ IdleStats /\ IdleHistory /\ IdleFraction /\ IdleId /\ IdleDate
    /\ IdleNormalize /\ IdleFotn /\ IdleSchedule /\ IdleName /\ IdleLocate /\ IdleStat
    /\ IdleCrawl /\ IdleUfcCrawl /\ IdleGetPage /\ IdleFighterUrls /\ IdleSigRounds

BuildHeaderMap ==
    /\ pc = "header_map"
    /\ hmap' = HeaderMap(header_cells, Len(header_cells))
    /\ pc' = "header_map_done"
    /\ UNCHANGED <<stats_sections, fights, stats_table, stats_out, hist_table,
                   hist_out, ufc_rows, ufc_fights, header_cells, frac_text, frac_out,
                   id_url, id_out, date_text, date_year, date_out, norm_text, norm_out,
                   fotn_txt, card_fights, sched_page, sched_year, allowed_leagues,
                   sched_events, crawl_events, name_anchor, name_out, stats_page,
                   history_page, ufc_doc, ufc_totals, stat_text, stat_out, ledger,
                   jsonl, crawl, ufc_seen, ufc_jsonl, ufc_crawl, page_call,
                   page_result, raw_urls, event_fighter_urls, round_page,
                   existing_rounds, rounds_out>>

NextHeader == BuildHeaderMap

SpecHeader == InitHeader /\ [][NextHeader]_vars

----------------------------------------------------------------------------
(* _parse_stat_fraction on one text *)

InitFraction ==
    /\ pc = "fraction"
    /\ frac_text \in SeqUpTo(FractionChars, MaxLen) /\ frac_out = <<0, 0>>
    /\ IdlePipeline /\ IdleStats /\ IdleHistory /\ IdleHeader /\ IdleId /\ IdleDate
    /\ IdleNormalize /\ IdleFotn /\ IdleSchedule /\ IdleName /\ IdleLocate /\ IdleStat
    /\ IdleCrawl /\ IdleUfcCrawl /\ IdleGetPage /\ IdleFighterUrls /\ IdleSigRounds

ParseFraction ==
    /\ pc = "fraction"
    /\ frac_out' = ParseStatFraction(frac_text)
    /\ pc' = "fraction_done"
    /\ UNCHANGED <<stats_sections, fights, stats_table, stats_out, hist_table,
                   hist_out, ufc_rows, ufc_fights, header_cells, hmap, frac_text,
                   id_url, id_out, date_text, date_year, date_out, norm_text, norm_out,
                   fotn_txt, card_fights, sched_page, sched_year, allowed_leagues,
                   sched_events, crawl_events, name_anchor, name_out, stats_page,
                   history_page, ufc_doc, ufc_totals, stat_text, stat_out, ledger,
                   jsonl, crawl, ufc_seen, ufc_jsonl, ufc_crawl, page_call,
                   page_result, raw_urls, event_fighter_urls, round_page,
                   existing_rounds, rounds_out>>

NextFraction == ParseFraction

SpecFraction == InitFraction /\ [][NextFraction]_vars

----------------------------------------------------------------------------
(* _extract_id_from_url of either scraper on one url *)

InitId ==
    /\ pc \in {"espn_id", "ufc_id"}
    /\ \/ id_url = [given |-> FALSE, text |-> <<>>]
       \/ \E ps \in SeqUpTo(UrlParts, MaxUrlParts) :
             id_url = [given |-> TRUE, text |-> Flatten(ps)]
    /\ id_out = ""
    /\ IdlePipeline /\ IdleStats /\ IdleHistory /\ IdleHeader /\ IdleFraction
    /\ IdleDate /\ IdleNormalize /\ IdleFotn /\ IdleSchedule /\ IdleName /\ IdleLocate
    /\ IdleStat /\ IdleCrawl /\ IdleUfcCrawl /\ IdleGetPage /\ IdleFighterUrls
    /\ IdleSigRounds

\* ESPNMMAScraper._extract_id_from_url
EspnExtractId ==
    /\ pc = "espn_id"
    /\ id_out' = IF ~id_url.given THEN "" ELSE ToStr(ExtractIdFromUrl(id_url.text))
    /\ pc' = "espn_id_done"
    /\ UNCHANGED <<stats_sections, fights, stats_table, stats_out, hist_table,
                   hist_out, ufc_rows, ufc_fights, header_cells, hmap, frac_text,
                   frac_out, id_url, date_text, date_year, date_out, norm_text,
                   norm_out, fotn_txt, card_fights, sched_page, sched_year,
                   allowed_leagues, sched_events, crawl_events, name_anchor, name_out,
                   stats_page, history_page, ufc_doc, ufc_totals, stat_text, stat_out,
                   ledger, jsonl, crawl, ufc_seen, ufc_jsonl, ufc_crawl, page_call,
                   page_result, raw_urls, event_fighter_urls, round_page,
                   existing_rounds, rounds_out>>

\* UFCStatsScraper._extract_id_from_url
UfcExtractId ==
    /\ pc = "ufc_id"
    /\ id_out' = IF ~id_url.given THEN "" ELSE ToStr(UfcExtractIdFromUrl(id_url.text))
    /\ pc' = "ufc_id_done"
    /\ UNCHANGED <<stats_sections, fights, stats_table, stats_out, hist_table,
                   hist_out, ufc_rows, ufc_fights, header_cells, hmap, frac_text,
                   frac_out, id_url, date_text, date_year, date_out, norm_text,
                   norm_out, fotn_txt, card_fights, sched_page, sched_year,
                   allowed_leagues, sched_events, crawl_events, name_anchor, name_out,
                   stats_page, history_page, ufc_doc, ufc_totals, stat_text, stat_out,
                   ledger, jsonl, crawl, ufc_seen, ufc_jsonl, ufc_crawl, page_call,
                   page_result, raw_urls, event_fighter_urls, round_page,
                   existing_rounds, rounds_out>>

NextId == EspnExtractId \/ UfcExtractId

SpecId == InitId /\ [][NextId]_vars

----------------------------------------------------------------------------
(* _parse_schedule_date on one text and one year *)

InitDate ==
    /\ pc = "schedule_date"
    /\ \E ps \in SeqUpTo(DateParts, MaxDateParts) : date_text = Flatten(ps)
    /\ date_year \in Years
    /\ date_out = NoneV
    /\ IdlePipeline /\ IdleStats /\ IdleHistory /\ IdleHeader /\ IdleFraction /\ IdleId
    /\ IdleNormalize /\ IdleFotn /\ IdleSchedule /\ IdleName /\ IdleLocate /\ IdleStat
    /\ IdleCrawl /\ IdleUfcCrawl /\ IdleGetPage /\ IdleFighterUrls /\ IdleSigRounds

ParseDate ==
    /\ pc = "schedule_date"
    /\ date_out' = ParseScheduleDate(date_text, date_year)
    /\ pc' = "schedule_date_done"
    /\ UNCHANGED <<stats_sections, fights, stats_table, stats_out, hist_table,
                   hist_out, ufc_rows, ufc_fights, header_cells, hmap, frac_text,
                   frac_out, id_url, id_out, date_text, date_year, norm_text, norm_out,
                   fotn_txt, card_fights, sched_page, sched_year, allowed_leagues,
                   sched_events, crawl_events, name_anchor, name_out, stats_page,
                   history_page, ufc_doc, ufc_totals, stat_text, stat_out, ledger,
                   jsonl, crawl, ufc_seen, ufc_jsonl, ufc_crawl, page_call,
                   page_result, raw_urls, event_fighter_urls, round_page,
                   existing_rounds, rounds_out>>

NextDate == ParseDate

SpecDate == InitDate /\ [][NextDate]_vars

----------------------------------------------------------------------------
(* _normalize_header on one th text *)

InitNormalize ==
    /\ pc = "normalize_header"
    /\ \E ps \in SeqUpTo(HeaderParts, MaxHeaderParts) : norm_text = Flatten(ps)
    /\ norm_out = ""
    /\ IdlePipeline /\ IdleStats /\ IdleHistory /\ IdleHeader /\ IdleFraction /\ IdleId
    /\ IdleDate /\ IdleFotn /\ IdleSchedule /\ IdleName /\ IdleLocate /\ IdleStat
    /\ IdleCrawl /\ IdleUfcCrawl /\ IdleGetPage /\ IdleFighterUrls /\ IdleSigRounds

NormalizeHeaderText ==
    /\ pc = "normalize_header"
    /\ norm_out' = NormalizeHeader(norm_text)
    /\ pc' = "normalize_header_done"
    /\ UNCHANGED <<stats_sections, fights, stats_table, stats_out, hist_table,
                   hist_out, ufc_rows, ufc_fights, header_cells, hmap, frac_text,
                   frac_out, id_url, id_out, date_text, date_year, date_out, norm_text,
                   fotn_txt, card_fights, sched_page, sched_year, allowed_leagues,
                   sched_events, crawl_events, name_anchor, name_out, stats_page,
                   history_page, ufc_doc, ufc_totals, stat_text, stat_out, ledger,
                   jsonl, crawl, ufc_seen, ufc_jsonl, ufc_crawl, page_call,
                   page_result, raw_urls, event_fighter_urls, round_page,
                   existing_rounds, rounds_out>>

NextNormalize == NormalizeHeaderText

SpecNormalize == InitNormalize /\ [][NextNormalize]_vars

----------------------------------------------------------------------------
(* the Fight-of-the-Night marking of crawl_all on the fights of one event *)

InitFotn ==
    /\ pc = "fotn"
    /\ fotn_txt \in FotnTexts
    /\ \E ns \in SeqUpTo(NameLists, MaxCardFights) :
          card_fights = [i \in DOMAIN ns |-> CardFight(ns[i])]
    /\ IdlePipeline /\ IdleStats /\ IdleHistory /\ IdleHeader /\ IdleFraction /\ IdleId
    /\ IdleDate /\ IdleNormalize /\ IdleSchedule /\ IdleName /\ IdleLocate /\ IdleStat
    /\ IdleCrawl /\ IdleUfcCrawl /\ IdleGetPage /\ IdleFighterUrls /\ IdleSigRounds

CrawlMarkFotn ==
    /\ pc = "fotn"
    /\ card_fights' = MarkFotn(card_fights, fotn_txt)
    /\ pc' = "fotn_done"
    /\ UNCHANGED <<stats_sections, fights, stats_table, stats_out, hist_table,
                   hist_out, ufc_rows, ufc_fights, header_cells, hmap, frac_text,
                   frac_out, id_url, id_out, date_text, date_year, date_out, norm_text,
                   norm_out, fotn_txt, sched_page, sched_year, allowed_leagues,
                   sched_events, crawl_events, name_anchor, name_out, stats_page,
                   history_page, ufc_doc, ufc_totals, stat_text, stat_out, ledger,
                   jsonl, crawl, ufc_seen, ufc_jsonl, ufc_crawl, page_call,
                   page_result, raw_urls, event_fighter_urls, round_page,
                   existing_rounds, rounds_out>>

NextFotn == CrawlMarkFotn

SpecFotn == InitFotn /\ [][NextFotn]_vars

----------------------------------------------------------------------------
(* scrape_schedule_year on the schedule page of one year, and the events   *)
(* crawl_all goes on to process                                            *)

InitSchedule ==
    /\ pc = "schedule"
    /\ \E hs \in ScheduleHeaders \cup {<<>>},
          rows \in SeqUpTo(ScheduleRowPool, MaxScheduleRows),
          second \in ScheduleSecondTables, swap \in BOOLEAN :
          LET t == IF hs = <<>>                        \* a table without thead
                   THEN [Table(SchedulePast, rows) EXCEPT !.hasHead = FALSE]
                   ELSE Table(hs, rows)
          IN sched_page = IF swap THEN <<second, t>> ELSE <<t, second>>
    /\ sched_year \in ScheduleYears
    /\ allowed_leagues \in LeagueSets
    /\ sched_events = <<>> /\ crawl_events = <<>>
    /\ IdlePipeline /\ IdleStats /\ IdleHistory /\ IdleHeader /\ IdleFraction /\ IdleId
    /\ IdleDate /\ IdleNormalize /\ IdleFotn /\ IdleName /\ IdleLocate /\ IdleStat
    /\ IdleCrawl /\ IdleUfcCrawl /\ IdleGetPage /\ IdleFighterUrls /\ IdleSigRounds

ScrapeScheduleYear ==
    /\ pc = "schedule"
    /\ \/ sched_events' = <<>>                        \* the page fetch failed
       \/ sched_events' = ScheduleEvents(sched_page, sched_year, allowed_leagues)
    /\ pc' = "crawl"
    /\ UNCHANGED <<stats_sections, fights, stats_table, stats_out, hist_table,
                   hist_out, ufc_rows, ufc_fights, header_cells, hmap, frac_text,
                   frac_out, id_url, id_out, date_text, date_year, date_out, norm_text,
                   norm_out, fotn_txt, card_fights, sched_page, sched_year,
                   allowed_leagues, crawl_events, name_anchor, name_out, stats_page,
                   history_page, ufc_doc, ufc_totals, stat_text, stat_out, ledger,
                   jsonl, crawl, ufc_seen, ufc_jsonl, ufc_crawl, page_call,
                   page_result, raw_urls, event_fighter_urls, round_page,
                   existing_rounds, rounds_out>>

\* crawl_all: the events of the year that pass its league test
CrawlSelectEvents ==
    /\ pc = "crawl"
    /\ crawl_events' = CrawlAllowed(sched_events, allowed_leagues)
    /\ pc' = "crawl_done"
    /\ UNCHANGED <<stats_sections, fights, stats_table, stats_out, hist_table,
                   hist_out, ufc_rows, ufc_fights, header_cells, hmap, frac_text,
                   frac_out, id_url, id_out, date_text, date_year, date_out, norm_text,
                   norm_out, fotn_txt, card_fights, sched_page, sched_year,
                   allowed_leagues, sched_events, name_anchor, name_out, stats_page,
                   history_page, ufc_doc, ufc_totals, stat_text, stat_out, ledger,
                   jsonl, crawl, ufc_seen, ufc_jsonl, ufc_crawl, page_call,
                   page_result, raw_urls, event_fighter_urls, round_page,
                   existing_rounds, rounds_out>>

NextSchedule == ScrapeScheduleYear \/ CrawlSelectEvents

SpecSchedule == InitSchedule /\ [][NextSchedule]_vars

----------------------------------------------------------------------------
(* the name resolved for one fighter link, by either chain *)

InitName ==
    /\ pc \in {"name_local", "name_near"}
    /\ \E comp \in SeqUpTo(NameElTexts, MaxNameEls), card \in SeqUpTo(NameElTexts, MaxNameEls),
          text \in LinkTexts, href \in FighterHrefs :
          name_anchor = [comp |-> comp, card |-> card, text |-> text, href |-> href]
    /\ name_out = ""
    /\ IdlePipeline /\ IdleStats /\ IdleHistory /\ IdleHeader /\ IdleFraction /\ IdleId
    /\ IdleDate /\ IdleNormalize /\ IdleFotn /\ IdleSchedule /\ IdleLocate /\ IdleStat
    /\ IdleCrawl /\ IdleUfcCrawl /\ IdleGetPage /\ IdleFighterUrls /\ IdleSigRounds

\* fnames.append(_name_from_anchor_local(a))
NameLocal ==
    /\ pc = "name_local"
    /\ name_out' = NameFromAnchorLocal(name_anchor)
    /\ pc' = "name_local_done"
    /\ UNCHANGED <<stats_sections, fights, stats_table, stats_out, hist_table,
                   hist_out, ufc_rows, ufc_fights, header_cells, hmap, frac_text,
                   frac_out, id_url, id_out, date_text, date_year, date_out, norm_text,
                   norm_out, fotn_txt, card_fights, sched_page, sched_year,
                   allowed_leagues, sched_events, crawl_events, name_anchor,
                   stats_page, history_page, ufc_doc, ufc_totals, stat_text, stat_out,
                   ledger, jsonl, crawl, ufc_seen, ufc_jsonl, ufc_crawl, page_call,
                   page_result, raw_urls, event_fighter_urls, round_page,
                   existing_rounds, rounds_out>>

\* name = self._extract_name_near_anchor(a); if not name: name = self._slug_to_name(href)
NameNear ==
    /\ pc = "name_near"
    /\ name_out' = NameForIdMap(name_anchor)
    /\ pc' = "name_near_done"
    /\ UNCHANGED <<stats_sections, fights, stats_table, stats_out, hist_table,
                   hist_out, ufc_rows, ufc_fights, header_cells, hmap, frac_text,
                   frac_out, id_url, id_out, date_text, date_year, date_out, norm_text,
                   norm_out, fotn_txt, card_fights, sched_page, sched_year,
                   allowed_leagues, sched_events, crawl_events, name_anchor,
                   stats_page, history_page, ufc_doc, ufc_totals, stat_text, stat_out,
                   ledger, jsonl, crawl, ufc_seen, ufc_jsonl, ufc_crawl, page_call,
                   page_result, raw_urls, event_fighter_urls, round_page,
                   existing_rounds, rounds_out>>

NextName == NameLocal \/ NameNear

SpecName == InitName /\ [][NextName]_vars

----------------------------------------------------------------------------
----------------------------------------------------------------------------
(* One page with several candidates per locator: scrape_fighter_stats,     *)
(* scrape_fighter_history, or _extract_fight_stats                         *)

InitLocate ==
    /\ pc \in {"stats_page", "history_page", "ufc_fight_page"}
    /\ stats_page \in IF pc = "stats_page" THEN SeqUpTo(BoxPool, MaxBoxes) ELSE {<<>>}
    /\ history_page \in IF pc = "history_page"
                         THEN SeqUpTo(HistoryTablePool, MaxHistoryTables) ELSE {<<>>}
    /\ ufc_doc \in IF pc = "ufc_fight_page" THEN SeqUpTo(UfcElPool, MaxUfcEls) ELSE {<<>>}
    /\ ufc_totals = <<>>
    /\ IdlePipeline /\ IdleStats /\ IdleHistory /\ IdleHeader /\ IdleFraction /\ IdleId
    /\ IdleDate /\ IdleNormalize /\ IdleFotn /\ IdleSchedule /\ IdleName /\ IdleStat
    /\ IdleCrawl /\ IdleUfcCrawl /\ IdleGetPage /\ IdleFighterUrls /\ IdleSigRounds

\* stats_sections[sec] = parse_stats_table(self._pick_stats_table_by_title(soup, sec))
ScrapeStatsPage ==
    /\ pc = "stats_page"
    /\ stats_sections' = StatsSections(stats_page)
    /\ pc' = "stats_page_done"
    /\ UNCHANGED <<fights, stats_table, stats_out, hist_table, hist_out, ufc_rows,
                   ufc_fights, header_cells, hmap, frac_text, frac_out, id_url, id_out,
                   date_text, date_year, date_out, norm_text, norm_out, fotn_txt,
                   card_fights, sched_page, sched_year, allowed_leagues, sched_events,
                   crawl_events, name_anchor, name_out, stats_page, history_page,
                   ufc_doc, ufc_totals, stat_text, stat_out, ledger, jsonl, crawl,
                   ufc_seen, ufc_jsonl, ufc_crawl, page_call, page_result, raw_urls,
                   event_fighter_urls, round_page, existing_rounds, rounds_out>>

\* history_data['fights'].extend(self._parse_fight_history_table(table))
ScrapeHistoryPage ==
    /\ pc = "history_page"
    /\ fights' = HistoryFights(history_page)
    /\ pc' = "history_page_done"
    /\ UNCHANGED <<stats_sections, stats_table, stats_out, hist_table, hist_out,
                   ufc_rows, ufc_fights, header_cells, hmap, frac_text, frac_out,
                   id_url, id_out, date_text, date_year, date_out, norm_text, norm_out,
                   fotn_txt, card_fights, sched_page, sched_year, allowed_leagues,
                   sched_events, crawl_events, name_anchor, name_out, stats_page,
                   history_page, ufc_doc, ufc_totals, stat_text, stat_out, ledger,
                   jsonl, crawl, ufc_seen, ufc_jsonl, ufc_crawl, page_call,
                   page_result, raw_urls, event_fighter_urls, round_page,
                   existing_rounds, rounds_out>>

\* fight_data['totals'] = self._extract_fight_stats(soup)
ExtractFightStatsPage ==
    /\ pc = "ufc_fight_page"
    /\ ufc_totals' = ExtractFightStats(ufc_doc)
    /\ pc' = "ufc_fight_page_done"
    /\ UNCHANGED <<stats_sections, fights, stats_table, stats_out, hist_table,
                   hist_out, ufc_rows, ufc_fights, header_cells, hmap, frac_text,
                   frac_out, id_url, id_out, date_text, date_year, date_out, norm_text,
                   norm_out, fotn_txt, card_fights, sched_page, sched_year,
                   allowed_leagues, sched_events, crawl_events, name_anchor, name_out,
                   stats_page, history_page, ufc_doc, stat_text, stat_out, ledger,
                   jsonl, crawl, ufc_seen, ufc_jsonl, ufc_crawl, page_call,
                   page_result, raw_urls, event_fighter_urls, round_page,
                   existing_rounds, rounds_out>>

NextLocate == ScrapeStatsPage \/ ScrapeHistoryPage \/ ExtractFightStatsPage
SpecLocate == InitLocate /\ [][NextLocate]_vars

----------------------------------------------------------------------------
(* _parse_percentage and _parse_time_control on one cell text *)

InitStat ==
    /\ pc \in {"percentage", "time_control"}
    /\ stat_text \in SeqUpTo(StatChars, MaxStatLen)
    /\ stat_out = 0
    /\ IdlePipeline /\ IdleStats /\ IdleHistory /\ IdleHeader /\ IdleFraction /\ IdleId
    /\ IdleDate /\ IdleNormalize /\ IdleFotn /\ IdleSchedule /\ IdleName /\ IdleLocate
    /\ IdleCrawl /\ IdleUfcCrawl /\ IdleGetPage /\ IdleFighterUrls /\ IdleSigRounds

ParsePercentageText ==
    /\ pc = "percentage"
    /\ stat_out' = ParsePercentage(stat_text)
    /\ pc' = "percentage_done"
    /\ UNCHANGED <<stats_sections, fights, stats_table, stats_out, hist_table,
                   hist_out, ufc_rows, ufc_fights, header_cells, hmap, frac_text,
                   frac_out, id_url, id_out, date_text, date_year, date_out, norm_text,
                   norm_out, fotn_txt, card_fights, sched_page, sched_year,
                   allowed_leagues, sched_events, crawl_events, name_anchor, name_out,
                   stats_page, history_page, ufc_doc, ufc_totals, stat_text, ledger,
                   jsonl, crawl, ufc_seen, ufc_jsonl, ufc_crawl, page_call,
                   page_result, raw_urls, event_fighter_urls, round_page,
                   existing_rounds, rounds_out>>

ParseTimeControlText ==
    /\ pc = "time_control"
    /\ stat_out' = ParseTimeControl(stat_text)
    /\ pc' = "time_control_done"
    /\ UNCHANGED <<stats_sections, fights, stats_table, stats_out, hist_table,
                   hist_out, ufc_rows, ufc_fights, header_cells, hmap, frac_text,
                   frac_out, id_url, id_out, date_text, date_year, date_out, norm_text,
                   norm_out, fotn_txt, card_fights, sched_page, sched_year,
                   allowed_leagues, sched_events, crawl_events, name_anchor, name_out,
                   stats_page, history_page, ufc_doc, ufc_totals, stat_text, ledger,
                   jsonl, crawl, ufc_seen, ufc_jsonl, ufc_crawl, page_call,
                   page_result, raw_urls, event_fighter_urls, round_page,
                   existing_rounds, rounds_out>>

NextStat == ParsePercentageText \/ ParseTimeControlText
SpecStat == InitStat /\ [][NextStat]_vars

----------------------------------------------------------------------------
(* crawl_all and retry_failed_items, one step per event or fighter visited *)

InitCrawl ==
    /\ pc = "crawl_idle"
    /\ ledger = EmptyLedger /\ jsonl = EmptyJsonl /\ crawl = IdleCrawlState
    /\ IdleStats /\ IdleHistory /\ IdleHeader /\ IdleFraction
    /\ IdlePipeline /\ IdleId /\ IdleDate /\ IdleNormalize /\ IdleFotn
    /\ IdleSchedule /\ IdleName /\ IdleLocate /\ IdleStat /\ IdleUfcCrawl /\ IdleGetPage
    /\ IdleFighterUrls /\ IdleSigRounds

\* crawl_all: the events of the schedule that pass the league filter
CrawlAllStart ==
    /\ pc = "crawl_idle" /\ crawl.runs < MaxRuns
    /\ \E events \in SeqUpTo(EventUrls, MaxEvents) :
          crawl' = [crawl EXCEPT !.events_todo = events, !.runs = @ + 1,
                                 !.scraping = NoScrape]
    /\ pc' = "crawl_events"
    /\ UNCHANGED <<ledger, jsonl, stats_sections, fights, stats_table, stats_out,
                   hist_table, hist_out, ufc_rows, ufc_fights, header_cells, hmap,
                   frac_text, frac_out, id_url, id_out, date_text, date_year, date_out,
                   norm_text, norm_out, fotn_txt, card_fights, sched_page, sched_year,
                   allowed_leagues, sched_events, crawl_events, name_anchor, name_out,
                   stats_page, history_page, ufc_doc, ufc_totals, stat_text, stat_out,
                   ufc_seen, ufc_jsonl, ufc_crawl, page_call, page_result, raw_urls,
                   event_fighter_urls, round_page, existing_rounds, rounds_out>>

\* one pass of the loop over events (lines 1319-1368)
CrawlEvent ==
    /\ pc = "crawl_events" /\ crawl.events_todo # <<>>
    /\ LET event_url == Head(crawl.events_todo)
           rest == [crawl EXCEPT !.events_todo = Tail(@)]
       IN IF \/ event_url \in ledger.completed_events
             \/ TooManyFailures(ledger.failed_events, event_url)
          THEN /\ crawl' = [rest EXCEPT !.scraping = [kind |-> "event_skipped",
                                                       url |-> event_url, fetched |-> {}]]
               /\ UNCHANGED <<ledger, jsonl, pc, ufc_seen, ufc_jsonl, ufc_crawl, page_call,
                   page_result, raw_urls, event_fighter_urls, round_page,
                   existing_rounds, rounds_out>>
          ELSE \/ /\ crawl' = [rest EXCEPT !.scraping = [kind |-> "event", url |-> event_url,
                                                          fetched |-> {}]]
                  /\ ledger' = [ledger EXCEPT !.failed_events = AddFailed(@, event_url)]
                  /\ UNCHANGED <<jsonl, pc, ufc_seen, ufc_jsonl, ufc_crawl, page_call, page_result,
                   raw_urls, event_fighter_urls, round_page, existing_rounds,
                   rounds_out>>
               \/ \E urls \in SUBSET FighterUrls :
                     /\ crawl' = [rest EXCEPT !.scraping = [kind |-> "event", url |-> event_url,
                                                            fetched |-> {"event"}],
                                              !.fighters_todo = SortedUrls(urls)]
                     /\ jsonl' = [jsonl EXCEPT !.events[event_url] = @ + 1]
                     /\ ledger' = [ledger EXCEPT !.completed_events = @ \cup {event_url}]
                     /\ pc' = "crawl_fighters"
    /\ UNCHANGED <<stats_sections, fights, stats_table, stats_out, hist_table,
                   hist_out, ufc_rows, ufc_fights, header_cells, hmap, frac_text,
                   frac_out, id_url, id_out, date_text, date_year, date_out, norm_text,
                   norm_out, fotn_txt, card_fights, sched_page, sched_year,
                   allowed_leagues, sched_events, crawl_events, name_anchor, name_out,
                   stats_page, history_page, ufc_doc, ufc_totals, stat_text, stat_out,
                   ufc_seen, ufc_jsonl, ufc_crawl, page_call, page_result, raw_urls,
                   event_fighter_urls, round_page, existing_rounds, rounds_out>>

\* one pass of the loop over fighter_urls (lines 1372-1399)
CrawlFighter ==
    /\ pc = "crawl_fighters" /\ crawl.fighters_todo # <<>>
    /\ LET fighter_url == Head(crawl.fighters_todo)
           rest == [crawl EXCEPT !.fighters_todo = Tail(@)]
       IN IF \/ fighter_url \in ledger.completed_fighters
             \/ TooManyFailures(ledger.failed_fighters, fighter_url)
          THEN /\ crawl' = [rest EXCEPT !.scraping = [kind |-> "fighter_skipped",
                                                       url |-> fighter_url, fetched |-> {}]]
               /\ UNCHANGED <<ledger, jsonl, ufc_seen, ufc_jsonl, ufc_crawl, page_call,
                   page_result, raw_urls, event_fighter_urls, round_page,
                   existing_rounds, rounds_out>>
          ELSE \/ /\ crawl' = [rest EXCEPT !.scraping = [kind |-> "fighter", url |-> fighter_url,
                                                          fetched |-> {"raised"}]]
                  /\ ledger' = [ledger EXCEPT !.failed_fighters = AddFailed(@, fighter_url)]
                  /\ UNCHANGED jsonl
               \/ \E fetched \in FighterFetches :
                     /\ crawl' = [rest EXCEPT !.scraping = [kind |-> "fighter",
                                                            url |-> fighter_url,
                                                            fetched |-> fetched]]
                     /\ IF FighterData(fetched) = {}
                        THEN /\ ledger' = [ledger EXCEPT
                                              !.failed_fighters = AddFailed(@, fighter_url)]
                             /\ UNCHANGED jsonl
                        ELSE /\ jsonl' = [jsonl EXCEPT !.fighters[fighter_url] = @ + 1]
                             /\ ledger' = [ledger EXCEPT
                                              !.completed_fighters = @ \cup {fighter_url}]
    /\ UNCHANGED <<pc, stats_sections, fights, stats_table, stats_out, hist_table,
                   hist_out, ufc_rows, ufc_fights, header_cells, hmap, frac_text,
                   frac_out, id_url, id_out, date_text, date_year, date_out, norm_text,
                   norm_out, fotn_txt, card_fights, sched_page, sched_year,
                   allowed_leagues, sched_events, crawl_events, name_anchor, name_out,
                   stats_page, history_page, ufc_doc, ufc_totals, stat_text, stat_out,
                   ufc_seen, ufc_jsonl, ufc_crawl, page_call, page_result, raw_urls,
                   event_fighter_urls, round_page, existing_rounds, rounds_out>>

\* the fighters of the event are done: self._save_progress() and the next event
CrawlFightersDone ==
    /\ pc = "crawl_fighters" /\ crawl.fighters_todo = <<>>
    /\ crawl' = [crawl EXCEPT !.scraping = NoScrape]
    /\ pc' = "crawl_events"
    /\ UNCHANGED <<ledger, jsonl, stats_sections, fights, stats_table, stats_out,
                   hist_table, hist_out, ufc_rows, ufc_fights, header_cells, hmap,
                   frac_text, frac_out, id_url, id_out, date_text, date_year, date_out,
                   norm_text, norm_out, fotn_txt, card_fights, sched_page, sched_year,
                   allowed_leagues, sched_events, crawl_events, name_anchor, name_out,
                   stats_page, history_page, ufc_doc, ufc_totals, stat_text, stat_out,
                   ufc_seen, ufc_jsonl, ufc_crawl, page_call, page_result, raw_urls,
                   event_fighter_urls, round_page, existing_rounds, rounds_out>>

\* the schedule is done: the finally block of crawl_all
CrawlAllEnd ==
    /\ pc = "crawl_events" /\ crawl.events_todo = <<>>
    /\ crawl' = [crawl EXCEPT !.scraping = NoScrape]
    /\ pc' = "crawl_idle"
    /\ UNCHANGED <<ledger, jsonl, stats_sections, fights, stats_table, stats_out,
                   hist_table, hist_out, ufc_rows, ufc_fights, header_cells, hmap,
                   frac_text, frac_out, id_url, id_out, date_text, date_year, date_out,
                   norm_text, norm_out, fotn_txt, card_fights, sched_page, sched_year,
                   allowed_leagues, sched_events, crawl_events, name_anchor, name_out,
                   stats_page, history_page, ufc_doc, ufc_totals, stat_text, stat_out,
                   ufc_seen, ufc_jsonl, ufc_crawl, page_call, page_result, raw_urls,
                   event_fighter_urls, round_page, existing_rounds, rounds_out>>

\* retry_failed_items: events_to_retry
RetryStart ==
    /\ pc = "crawl_idle" /\ crawl.runs < MaxRuns
    /\ crawl' = [crawl EXCEPT !.events_todo = ToRetry(ledger.failed_events), !.runs = @ + 1,
                              !.scraping = NoScrape]
    /\ pc' = "retry_events"
    /\ UNCHANGED <<ledger, jsonl, stats_sections, fights, stats_table, stats_out,
                   hist_table, hist_out, ufc_rows, ufc_fights, header_cells, hmap,
                   frac_text, frac_out, id_url, id_out, date_text, date_year, date_out,
                   norm_text, norm_out, fotn_txt, card_fights, sched_page, sched_year,
                   allowed_leagues, sched_events, crawl_events, name_anchor, name_out,
                   stats_page, history_page, ufc_doc, ufc_totals, stat_text, stat_out,
                   ufc_seen, ufc_jsonl, ufc_crawl, page_call, page_result, raw_urls,
                   event_fighter_urls, round_page, existing_rounds, rounds_out>>

\* one pass of the loop over events_to_retry (lines 1437-1453)
RetryEvent ==
    /\ pc = "retry_events" /\ crawl.events_todo # <<>>
    /\ LET event_url == Head(crawl.events_todo)
           rest == [crawl EXCEPT !.events_todo = Tail(@)]
       IN \/ /\ crawl' = [rest EXCEPT !.scraping = [kind |-> "event", url |-> event_url,
                                                     fetched |-> {}]]
             /\ ledger' = [ledger EXCEPT !.failed_events = AddFailed(@, event_url)]
             /\ UNCHANGED jsonl
          \/ /\ crawl' = [rest EXCEPT !.scraping = [kind |-> "event", url |-> event_url,
                                                     fetched |-> {"event"}]]
             /\ jsonl' = [jsonl EXCEPT !.events[event_url] = @ + 1]
             /\ ledger' = [ledger EXCEPT !.completed_events = @ \cup {event_url},
                                         !.failed_events = RemoveFailed(@, event_url)]
    /\ UNCHANGED <<pc, stats_sections, fights, stats_table, stats_out, hist_table,
                   hist_out, ufc_rows, ufc_fights, header_cells, hmap, frac_text,
                   frac_out, id_url, id_out, date_text, date_year, date_out, norm_text,
                   norm_out, fotn_txt, card_fights, sched_page, sched_year,
                   allowed_leagues, sched_events, crawl_events, name_anchor, name_out,
                   stats_page, history_page, ufc_doc, ufc_totals, stat_text, stat_out,
                   ufc_seen, ufc_jsonl, ufc_crawl, page_call, page_result, raw_urls,
                   event_fighter_urls, round_page, existing_rounds, rounds_out>>

\* the events are done: fighters_to_retry
RetryEventsDone ==
    /\ pc = "retry_events" /\ crawl.events_todo = <<>>
    /\ crawl' = [crawl EXCEPT !.fighters_todo = ToRetry(ledger.failed_fighters),
                              !.scraping = NoScrape]
    /\ pc' = "retry_fighters"
    /\ UNCHANGED <<ledger, jsonl, stats_sections, fights, stats_table, stats_out,
                   hist_table, hist_out, ufc_rows, ufc_fights, header_cells, hmap,
                   frac_text, frac_out, id_url, id_out, date_text, date_year, date_out,
                   norm_text, norm_out, fotn_txt, card_fights, sched_page, sched_year,
                   allowed_leagues, sched_events, crawl_events, name_anchor, name_out,
                   stats_page, history_page, ufc_doc, ufc_totals, stat_text, stat_out,
                   ufc_seen, ufc_jsonl, ufc_crawl, page_call, page_result, raw_urls,
                   event_fighter_urls, round_page, existing_rounds, rounds_out>>

\* one pass of the loop over fighters_to_retry (lines 1459-1475)
RetryFighter ==
    /\ pc = "retry_fighters" /\ crawl.fighters_todo # <<>>
    /\ LET fighter_url == Head(crawl.fighters_todo)
           rest == [crawl EXCEPT !.fighters_todo = Tail(@)]
       IN \/ /\ crawl' = [rest EXCEPT !.scraping = [kind |-> "fighter", url |-> fighter_url,
                                                     fetched |-> {"raised"}]]
             /\ ledger' = [ledger EXCEPT !.failed_fighters = AddFailed(@, fighter_url)]
             /\ UNCHANGED jsonl
          \/ \E fetched \in FighterFetches :
                /\ crawl' = [rest EXCEPT !.scraping = [kind |-> "fighter", url |-> fighter_url,
                                                       fetched |-> fetched]]
                /\ IF FighterData(fetched) = {}
                   THEN /\ ledger' = [ledger EXCEPT
                                         !.failed_fighters = AddFailed(@, fighter_url)]
                        /\ UNCHANGED jsonl
                   ELSE /\ jsonl' = [jsonl EXCEPT !.fighters[fighter_url] = @ + 1]
                        /\ ledger' = [ledger EXCEPT
                                         !.completed_fighters = @ \cup {fighter_url},
                                         !.failed_fighters = RemoveFailed(@, fighter_url)]
    /\ UNCHANGED <<pc, stats_sections, fights, stats_table, stats_out, hist_table,
                   hist_out, ufc_rows, ufc_fights, header_cells, hmap, frac_text,
                   frac_out, id_url, id_out, date_text, date_year, date_out, norm_text,
                   norm_out, fotn_txt, card_fights, sched_page, sched_year,
                   allowed_leagues, sched_events, crawl_events, name_anchor, name_out,
                   stats_page, history_page, ufc_doc, ufc_totals, stat_text, stat_out,
                   ufc_seen, ufc_jsonl, ufc_crawl, page_call, page_result, raw_urls,
                   event_fighter_urls, round_page, existing_rounds, rounds_out>>

\* the fighters are done: self._save_progress()
RetryEnd ==
    /\ pc = "retry_fighters" /\ crawl.fighters_todo = <<>>
    /\ crawl' = [crawl EXCEPT !.scraping = NoScrape]
    /\ pc' = "crawl_idle"
    /\ UNCHANGED <<ledger, jsonl, stats_sections, fights, stats_table, stats_out,
                   hist_table, hist_out, ufc_rows, ufc_fights, header_cells, hmap,
                   frac_text, frac_out, id_url, id_out, date_text, date_year, date_out,
                   norm_text, norm_out, fotn_txt, card_fights, sched_page, sched_year,
                   allowed_leagues, sched_events, crawl_events, name_anchor, name_out,
                   stats_page, history_page, ufc_doc, ufc_totals, stat_text, stat_out,
                   ufc_seen, ufc_jsonl, ufc_crawl, page_call, page_result, raw_urls,
                   event_fighter_urls, round_page, existing_rounds, rounds_out>>

NextCrawl ==
    \/ CrawlAllStart \/ CrawlEvent \/ CrawlFighter \/ CrawlFightersDone \/ CrawlAllEnd
    \/ RetryStart \/ RetryEvent \/ RetryEventsDone \/ RetryFighter \/ RetryEnd
SpecCrawl == InitCrawl /\ [][NextCrawl]_vars

----------------------------------------------------------------------------
(* One run of the UFC Stats crawl_all, one step per fighter or fight url *)

InitUfcCrawl ==
    /\ pc = "ufc_crawl_fighters"
    /\ ufc_seen = NothingSeen /\ ufc_jsonl = NothingWritten
    /\ \E urls \in SeqUpTo(UfcFighterUrls, MaxListing) :
          ufc_crawl = [listing |-> urls, fighters_todo |-> urls, fights_todo |-> <<>>]
    /\ IdleStats /\ IdleHistory /\ IdleHeader /\ IdleFraction /\ IdlePipeline
    /\ IdleId /\ IdleDate /\ IdleNormalize /\ IdleFotn /\ IdleSchedule /\ IdleName
    /\ IdleLocate /\ IdleStat /\ IdleCrawl /\ IdleGetPage /\ IdleFighterUrls
    /\ IdleSigRounds

\* one pass of the loop over iter_all_fighter_urls (lines 1177-1193)
UfcCrawlFighter ==
    /\ pc = "ufc_crawl_fighters" /\ ufc_crawl.fighters_todo # <<>>
    /\ LET fighter_url == Head(ufc_crawl.fighters_todo)
           fighter_id == ToStr(UfcExtractIdFromUrl(fighter_url))
       IN IF fighter_id \in ufc_seen.fighters
          THEN /\ ufc_crawl' = [ufc_crawl EXCEPT !.fighters_todo = Tail(@)]
               /\ UNCHANGED <<ufc_seen, ufc_jsonl, pc, page_call, page_result, raw_urls,
                   event_fighter_urls, round_page, existing_rounds, rounds_out>>
          ELSE /\ \E outcome \in ScrapeOutcomes :
                     /\ ufc_seen' = IF outcome = "raised" THEN ufc_seen
                                    ELSE [ufc_seen EXCEPT !.fighters = MarkSeen(@, fighter_id)]
                     /\ ufc_jsonl' = IF outcome = "data"
                                     THEN [ufc_jsonl EXCEPT !.fighters = Append(@, fighter_id)]
                                     ELSE ufc_jsonl
               /\ \E fight_urls \in SeqUpTo(UfcFightUrls, MaxListing) :
                     ufc_crawl' = [ufc_crawl EXCEPT !.fighters_todo = Tail(@),
                                                    !.fights_todo = fight_urls]
               /\ pc' = "ufc_crawl_fights"
    /\ UNCHANGED <<stats_sections, fights, stats_table, stats_out, hist_table,
                   hist_out, ufc_rows, ufc_fights, header_cells, hmap, frac_text,
                   frac_out, id_url, id_out, date_text, date_year, date_out, norm_text,
                   norm_out, fotn_txt, card_fights, sched_page, sched_year,
                   allowed_leagues, sched_events, crawl_events, name_anchor, name_out,
                   stats_page, history_page, ufc_doc, ufc_totals, stat_text, stat_out,
                   ledger, jsonl, crawl, page_call, page_result, raw_urls,
                   event_fighter_urls, round_page, existing_rounds, rounds_out>>

\* one pass of the loop over iter_fight_urls_for_fighter (lines 1196-1226)
UfcCrawlFight ==
    /\ pc = "ufc_crawl_fights" /\ ufc_crawl.fights_todo # <<>>
    /\ ufc_crawl' = [ufc_crawl EXCEPT !.fights_todo = Tail(@)]
    /\ LET fight_url == Head(ufc_crawl.fights_todo)
           fight_id == ToStr(UfcExtractIdFromUrl(fight_url))
       IN IF fight_id \in ufc_seen.fights
          THEN UNCHANGED <<ufc_seen, ufc_jsonl>>
          ELSE \/ UNCHANGED <<ufc_seen, ufc_jsonl>>      \* scrape_fight raised or gave {}
               \/ \E event_url \in UfcEventUrls, outcome \in ScrapeOutcomes :
                     LET ev == CrawlEventOf(event_url, outcome, ufc_seen.events,
                                            ufc_jsonl.events)
                     IN /\ ufc_seen' = [ufc_seen EXCEPT !.fights = MarkSeen(@, fight_id),
                                                        !.events = ev.seen]
                        /\ ufc_jsonl' = [ufc_jsonl EXCEPT !.fights = Append(@, fight_id),
                                                          !.events = ev.written]
    /\ UNCHANGED <<pc, stats_sections, fights, stats_table, stats_out, hist_table,
                   hist_out, ufc_rows, ufc_fights, header_cells, hmap, frac_text,
                   frac_out, id_url, id_out, date_text, date_year, date_out, norm_text,
                   norm_out, fotn_txt, card_fights, sched_page, sched_year,
                   allowed_leagues, sched_events, crawl_events, name_anchor, name_out,
                   stats_page, history_page, ufc_doc, ufc_totals, stat_text, stat_out,
                   ledger, jsonl, crawl, page_call, page_result, raw_urls,
                   event_fighter_urls, round_page, existing_rounds, rounds_out>>

\* the fights of the fighter are done
UfcCrawlFightsDone ==
    /\ pc = "ufc_crawl_fights" /\ ufc_crawl.fights_todo = <<>>
    /\ pc' = "ufc_crawl_fighters"
    /\ UNCHANGED <<ufc_seen, ufc_jsonl, ufc_crawl, stats_sections, fights, stats_table,
                   stats_out, hist_table, hist_out, ufc_rows, ufc_fights, header_cells,
                   hmap, frac_text, frac_out, id_url, id_out, date_text, date_year,
                   date_out, norm_text, norm_out, fotn_txt, card_fights, sched_page,
                   sched_year, allowed_leagues, sched_events, crawl_events,
                   name_anchor, name_out, stats_page, history_page, ufc_doc,
                   ufc_totals, stat_text, stat_out, ledger, jsonl, crawl, page_call,
                   page_result, raw_urls, event_fighter_urls, round_page,
                   existing_rounds, rounds_out>>

\* the listing is done
UfcCrawlEnd ==
    /\ pc = "ufc_crawl_fighters" /\ ufc_crawl.fighters_todo = <<>>
    /\ pc' = "ufc_crawl_done"
    /\ UNCHANGED <<ufc_seen, ufc_jsonl, ufc_crawl, stats_sections, fights, stats_table,
                   stats_out, hist_table, hist_out, ufc_rows, ufc_fights, header_cells,
                   hmap, frac_text, frac_out, id_url, id_out, date_text, date_year,
                   date_out, norm_text, norm_out, fotn_txt, card_fights, sched_page,
                   sched_year, allowed_leagues, sched_events, crawl_events,
                   name_anchor, name_out, stats_page, history_page, ufc_doc,
                   ufc_totals, stat_text, stat_out, ledger, jsonl, crawl, page_call,
                   page_result, raw_urls, event_fighter_urls, round_page,
                   existing_rounds, rounds_out>>

NextUfcCrawl == UfcCrawlFighter \/ UfcCrawlFight \/ UfcCrawlFightsDone \/ UfcCrawlEnd
SpecUfcCrawl == InitUfcCrawl /\ [][NextUfcCrawl]_vars

----------------------------------------------------------------------------
(* One call of _get_page(url, max_retries), one step per pass of the loop *)

InitGetPage ==
    /\ pc = "get_page"
    /\ \E n \in 0..MaxRetries : page_call = [max_retries |-> n, attempt |-> 0, gets |-> <<>>]
    /\ page_result = "pending"
    /\ IdleStats /\ IdleHistory /\ IdleHeader /\ IdleFraction /\ IdlePipeline
    /\ IdleId /\ IdleDate /\ IdleNormalize /\ IdleFotn /\ IdleSchedule /\ IdleName
    /\ IdleLocate /\ IdleStat /\ IdleCrawl /\ IdleUfcCrawl /\ IdleFighterUrls
    /\ IdleSigRounds

\* one pass of "for attempt in range(max_retries)"
GetPageAttempt ==
    /\ pc = "get_page" /\ page_call.attempt < page_call.max_retries
    /\ \E outcome \in GetOutcomes :
          /\ page_call' = [page_call EXCEPT !.attempt = @ + 1, !.gets = Append(@, outcome)]
          /\ page_result' = PassReturns(outcome, page_call.attempt, page_call.max_retries)
          /\ pc' = IF page_result' = "pending" THEN "get_page" ELSE "get_page_done"
    /\ UNCHANGED <<stats_sections, fights, stats_table, stats_out, hist_table,
                   hist_out, ufc_rows, ufc_fights, header_cells, hmap, frac_text,
                   frac_out, id_url, id_out, date_text, date_year, date_out, norm_text,
                   norm_out, fotn_txt, card_fights, sched_page, sched_year,
                   allowed_leagues, sched_events, crawl_events, name_anchor, name_out,
                   stats_page, history_page, ufc_doc, ufc_totals, stat_text, stat_out,
                   ledger, jsonl, crawl, ufc_seen, ufc_jsonl, ufc_crawl, raw_urls,
                   event_fighter_urls, round_page, existing_rounds, rounds_out>>

\* the loop is over: return None (line 313)
GetPageExhausted ==
    /\ pc = "get_page" /\ page_call.attempt >= page_call.max_retries
    /\ page_result' = "None"
    /\ pc' = "get_page_done"
    /\ UNCHANGED <<page_call, stats_sections, fights, stats_table, stats_out,
                   hist_table, hist_out, ufc_rows, ufc_fights, header_cells, hmap,
                   frac_text, frac_out, id_url, id_out, date_text, date_year, date_out,
                   norm_text, norm_out, fotn_txt, card_fights, sched_page, sched_year,
                   allowed_leagues, sched_events, crawl_events, name_anchor, name_out,
                   stats_page, history_page, ufc_doc, ufc_totals, stat_text, stat_out,
                   ledger, jsonl, crawl, ufc_seen, ufc_jsonl, ufc_crawl, raw_urls,
                   event_fighter_urls, round_page, existing_rounds, rounds_out>>

NextGetPage == GetPageAttempt \/ GetPageExhausted
SpecGetPage == InitGetPage /\ [][NextGetPage]_vars
\* the call runs on: sleeping between the passes takes a finite time
SpecGetPageLive == SpecGetPage /\ WF_vars(NextGetPage)

----------------------------------------------------------------------------
(* The fighter urls of an event page, visited in any order *)

InitFighterUrls ==
    /\ pc = "fighter_urls"
    /\ raw_urls \in {order \in SeqUpTo(RawFighterUrls, MaxRawUrls) :
                        \A i, j \in DOMAIN order : order[i] = order[j] => i = j}
    /\ event_fighter_urls = <<>>
    /\ IdleStats /\ IdleHistory /\ IdleHeader /\ IdleFraction /\ IdlePipeline
    /\ IdleId /\ IdleDate /\ IdleNormalize /\ IdleFotn /\ IdleSchedule /\ IdleName
    /\ IdleLocate /\ IdleStat /\ IdleCrawl /\ IdleUfcCrawl /\ IdleGetPage
    /\ IdleSigRounds

\* lines 913-946 and 974 of _extract_event_data_from_soup
NormalizeFighterUrls ==
    /\ pc = "fighter_urls"
    /\ event_fighter_urls' = FighterUrlsOf(raw_urls)
    /\ pc' = "fighter_urls_done"
    /\ UNCHANGED <<stats_sections, fights, stats_table, stats_out, hist_table,
                   hist_out, ufc_rows, ufc_fights, header_cells, hmap, frac_text,
                   frac_out, id_url, id_out, date_text, date_year, date_out, norm_text,
                   norm_out, fotn_txt, card_fights, sched_page, sched_year,
                   allowed_leagues, sched_events, crawl_events, name_anchor, name_out,
                   stats_page, history_page, ufc_doc, ufc_totals, stat_text, stat_out,
                   ledger, jsonl, crawl, ufc_seen, ufc_jsonl, ufc_crawl, page_call,
                   page_result, raw_urls, round_page, existing_rounds, rounds_out>>

NextFighterUrls == NormalizeFighterUrls
SpecFighterUrls == InitFighterUrls /\ [][NextFighterUrls]_vars

----------------------------------------------------------------------------
(* The per-round breakdown merged into the rounds of a fight *)

InitSigRounds ==
    /\ pc = "sig_rounds"
    /\ round_page \in RoundPages
    /\ existing_rounds \in {rounds \in SeqUpTo(GeneralRounds, MaxRounds) :
                               \A i, j \in DOMAIN rounds : rounds[i] = rounds[j] => i = j}
    /\ rounds_out = <<>>
    /\ IdleStats /\ IdleHistory /\ IdleHeader /\ IdleFraction /\ IdlePipeline
    /\ IdleId /\ IdleDate /\ IdleNormalize /\ IdleFotn /\ IdleSchedule /\ IdleName
    /\ IdleLocate /\ IdleStat /\ IdleCrawl /\ IdleUfcCrawl /\ IdleGetPage
    /\ IdleFighterUrls

ExtractSigStrikesRoundsOfPage ==
    /\ pc = "sig_rounds"
    /\ rounds_out' = ExtractSigStrikesRounds(round_page, existing_rounds)
    /\ pc' = "sig_rounds_done"
    /\ UNCHANGED <<stats_sections, fights, stats_table, stats_out, hist_table,
                   hist_out, ufc_rows, ufc_fights, header_cells, hmap, frac_text,
                   frac_out, id_url, id_out, date_text, date_year, date_out,
                   norm_text, norm_out, fotn_txt, card_fights, sched_page, sched_year,
                   allowed_leagues, sched_events, crawl_events, name_anchor, name_out,
                   stats_page, history_page, ufc_doc, ufc_totals, stat_text, stat_out,
                   ledger, jsonl, crawl, ufc_seen, ufc_jsonl, ufc_crawl, page_call,
                   page_result, raw_urls, event_fighter_urls, round_page,
                   existing_rounds>>

NextSigRounds == ExtractSigStrikesRoundsOfPage
SpecSigRounds == InitSigRounds /\ [][NextSigRounds]_vars

----------------------------------------------------------------------------
(* Properties *)

\* the join key as the specification words it: the event_id when present
\* and non-empty, else "{date}|{opponent}"
ClaimJoinKey(d) ==
    IF "event_id" \in DOMAIN d /\ d["event_id"] \notin {NoneV, ""}
    THEN d["event_id"]
    ELSE PyStr(Get(d, "date")) \o "|" \o PyStr(Get(d, "opponent"))

SectionSet == {Sections[n] : n \in DOMAIN Sections}
SectionItems(s) == SectionPayload(stats_sections, s).items
Attaching == pc = "history" /\ pc' = "attached"

\* C1: the join gives an entry that had no field s the field s exactly when
\* the payload of section s holds the entry's join key, and the field is then
\* that payload row's metrics; a key found only in the striking payload adds
\* 'striking' and neither 'clinch' nor 'ground'.
C1_SectionAttachedIffKeyed ==
    [][Attaching =>
        /\ Len(fights') = Len(fights)
        /\ \A i \in DOMAIN fights : \A s \in SectionSet :
              s \notin DOMAIN fights[i] =>
                 /\ (s \in DOMAIN fights'[i]) <=>
                        (ClaimJoinKey(fights[i]) \in DOMAIN SectionItems(s))
                 /\ (s \in DOMAIN fights'[i]) =>
                        fights'[i][s] = SectionItems(s)[ClaimJoinKey(fights[i])].metrics]_vars

C1_Witness ==
    /\ pc = "attached"
    /\ \E i \in DOMAIN fights :
          /\ "striking" \in DOMAIN fights[i]
          /\ "clinch" \notin DOMAIN fights[i] /\ "ground" \notin DOMAIN fights[i]
          /\ ClaimJoinKey(fights[i]) \in DOMAIN SectionItems("striking")

\* C2: the join is idempotent: joining the already joined entries with the
\* same payloads again gives the same entries.
C2_JoinIdempotent ==
    pc = "attached" => AttachStatsToFights(fights, stats_sections) = fights

C2_Witness ==
    /\ pc = "attached"
    /\ \E i \in DOMAIN fights :
          Cardinality(SectionSet \cap DOMAIN fights[i]) >= 2

\* C3: an entry whose join key is in none of the three payloads leaves the
\* join with exactly the keys and values it had.
C3_UnmatchedUnchanged ==
    [][Attaching =>
        /\ Len(fights') = Len(fights)
        /\ \A i \in DOMAIN fights :
              (\A s \in SectionSet : ClaimJoinKey(fights[i]) \notin DOMAIN SectionItems(s))
                 => fights'[i] = fights[i]]_vars

C3_Witness ==
    /\ pc = "attached"
    /\ \E i, j \in DOMAIN fights :
          /\ \A s \in SectionSet : ClaimJoinKey(fights[i]) \notin DOMAIN SectionItems(s)
          /\ SectionSet \cap DOMAIN fights[i] = {}
          /\ SectionSet \cap DOMAIN fights[j] # {}

\* C4: the join is additive: every canonical field an entry had is still
\* there with the same value, and the list keeps its length and order.
C4_CanonicalFieldsKept ==
    [][Attaching =>
        /\ Len(fights') = Len(fights)
        /\ \A i \in DOMAIN fights : \A k \in CanonicalFields \cap DOMAIN fights[i] :
              k \in DOMAIN fights'[i] /\ fights'[i][k] = fights[i][k]]_vars

C4_Witness ==
    /\ pc = "attached"
    /\ Len(fights) = 2
    /\ \E i \in DOMAIN fights :
          /\ SectionSet \subseteq DOMAIN fights[i]
          /\ CanonicalFields \subseteq DOMAIN fights[i]

\* C5: the join key of a stats row and of a fight entry is the event_id
\* when it is present and non-empty and "{date}|{opponent}" otherwise, so
\* rows with the same non-empty event_id share their key in every section
\* whatever their date and opponent.
C5_JoinKey ==
    /\ \A s \in DOMAIN stats_sections : \A k \in DOMAIN stats_sections[s].items :
          k = ClaimJoinKey(stats_sections[s].items[k].meta)
    /\ \A s, t \in DOMAIN stats_sections :
          \A k \in DOMAIN stats_sections[s].items, l \in DOMAIN stats_sections[t].items :
             LET e == stats_sections[s].items[k].meta["event_id"]
             IN (e \notin {NoneV, ""} /\ e = stats_sections[t].items[l].meta["event_id"])
                   => k = l
    /\ pc = "attached" =>
          \A i \in DOMAIN fights : \A s \in SectionSet :
             (s \in DOMAIN fights[i]) <=> (ClaimJoinKey(fights[i]) \in DOMAIN SectionItems(s))

C5_Witness ==
    /\ pc = "attached"
    /\ \E s, t \in DOMAIN stats_sections :
          \E k \in DOMAIN stats_sections[s].items :
             /\ s # t
             /\ k \in DOMAIN stats_sections[t].items
             /\ stats_sections[s].items[k].meta["event_id"] = k
             /\ stats_sections[s].items[k].meta["date"]
                   # stats_sections[t].items[k].meta["date"]
             /\ \E i \in DOMAIN fights :
                   /\ Get(fights[i], "event_id") = k
                   /\ {s, t} \subseteq DOMAIN fights[i]
                   /\ fights[i]["date"] # stats_sections[t].items[k].meta["date"]

StatsRowDict(n) == StatsRow(stats_table.headers, stats_table.rows[n], Len(stats_table.rows[n]))
StatsKeyedRows == {n \in DOMAIN stats_table.rows : stats_table.rows[n] # <<>>}

\* C6: the join keys of one payload are unique, and a key that several
\* table rows produce holds the meta and metrics of the last of them.
C6_LastWriteWins ==
    pc = "stats_table_done" =>
       /\ \A i, j \in DOMAIN stats_out.order : stats_out.order[i] = stats_out.order[j] => i = j
       /\ {stats_out.order[i] : i \in DOMAIN stats_out.order} = DOMAIN stats_out.items
       /\ DOMAIN stats_out.items = {ClaimJoinKey(StatsRowDict(n)) : n \in StatsKeyedRows}
       /\ \A k \in DOMAIN stats_out.items :
             LET same == {n \in StatsKeyedRows : ClaimJoinKey(StatsRowDict(n)) = k}
                 last == CHOOSE n \in same : \A m \in same : m <= n
             IN stats_out.items[k] = [meta |-> StatsMeta(StatsRowDict(last)),
                                      metrics |-> StatsMetrics(StatsRowDict(last))]

C6_Witness ==
    /\ pc = "stats_table_done"
    /\ \E n, m \in StatsKeyedRows :
          /\ n < m
          /\ ClaimJoinKey(StatsRowDict(n)) = ClaimJoinKey(StatsRowDict(m))
          /\ StatsMetrics(StatsRowDict(n)) # StatsMetrics(StatsRowDict(m))
          /\ stats_out.items[ClaimJoinKey(StatsRowDict(m))].metrics = StatsMetrics(StatsRowDict(m))

HeaderKey(n) == ToStr(Lower(CleanText(header_cells[n])))
HeaderKeysBuilt ==
    pc = "header_map_done" => DOMAIN hmap = {HeaderKey(n) : n \in DOMAIN header_cells}

\* C7 as claimed: the header map holds, for each lower-cased cleaned header
\* text, the index of its first occurrence.
C7_FirstWins ==
    /\ HeaderKeysBuilt
    /\ pc = "header_map_done" =>
          \A h \in DOMAIN hmap :
             /\ hmap[h] + 1 \in DOMAIN header_cells /\ HeaderKey(hmap[h] + 1) = h
             /\ \A n \in DOMAIN header_cells : HeaderKey(n) = h => hmap[h] <= n - 1

\* C7 as amended: the header map holds, for each lower-cased cleaned header
\* text, the index of its last occurrence.
C7_LastWins ==
    /\ HeaderKeysBuilt
    /\ pc = "header_map_done" =>
          \A h \in DOMAIN hmap :
             /\ hmap[h] + 1 \in DOMAIN header_cells /\ HeaderKey(hmap[h] + 1) = h
             /\ \A n \in DOMAIN header_cells : HeaderKey(n) = h => n - 1 <= hmap[h]

C7_Witness ==
    /\ pc = "header_map_done"
    /\ \E n, m \in DOMAIN header_cells :
          n < m /\ header_cells[n] # header_cells[m] /\ HeaderKey(n) = HeaderKey(m)
                /\ hmap[HeaderKey(n)] = m - 1

HasCells(tds) == tds # <<>>
EspnRowsWithCells == SelectSeq(hist_table.rows, HasCells)
UfcHasCells(row) == row.cols # <<>>
UfcHasOnclick(row) == row.hasOnclick /\ row.onclick # <<>>

\* the entries of the ESPN history table are its body rows with at least
\* one cell, in table order
EspnRowOrderKept ==
    pc = "history_table_done" =>
       /\ Len(hist_out) = Len(EspnRowsWithCells)
       /\ \A i \in DOMAIN hist_out :
             hist_out[i] = HistoryRowEntry(HistoryHeaders(hist_table), EspnRowsWithCells[i])

UfcEntriesAre(rows) ==
    pc = "ufc_fighter_done" =>
       /\ Len(ufc_fights) = Len(rows)
       /\ \A i \in DOMAIN ufc_fights : ufc_fights[i] = UfcFightData(rows[i])

\* C8 as claimed: in both scrapers the fight entries are, in page order,
\* exactly the rows that have at least one cell.
C8_RowsWithCells ==
    EspnRowOrderKept /\ UfcEntriesAre(SelectSeq(ufc_rows, UfcHasCells))

\* C8 as amended: row order is kept; the ESPN entries are exactly the body
\* rows with at least one cell, the UFC Stats entries are exactly the rows
\* that carry a non-empty onclick attribute, whatever their cell count.
C8_RowOrderKept ==
    EspnRowOrderKept /\ UfcEntriesAre(SelectSeq(ufc_rows, UfcHasOnclick))

C8_Witness ==
    /\ pc = "ufc_fighter_done"
    /\ Len(ufc_fights) = 2
    /\ ufc_fights[1] # ufc_fights[2]
    /\ \E i \in DOMAIN ufc_rows : UfcHasOnclick(ufc_rows[i]) /\ ~UfcHasCells(ufc_rows[i])
    /\ \E i \in DOMAIN ufc_rows : ~UfcHasOnclick(ufc_rows[i]) /\ UfcHasCells(ufc_rows[i])

\* C9: every entry of _parse_fight_history_table has keys of the canonical
\* set only, whatever the headers and the number of cells of its row.
C9_CanonicalKeysOnly ==
    pc = "history_table_done" =>
       \A i \in DOMAIN hist_out : DOMAIN hist_out[i] \subseteq CanonicalFields

C9_Witness ==
    /\ pc = "history_table_done"
    /\ \E n \in DOMAIN hist_table.headers :
          NormalizeHeader(hist_table.headers[n]) \notin RecognizedFields
    /\ Len(hist_table.headers) >= 3
    /\ \E r \in DOMAIN hist_table.rows : Len(hist_table.rows[r]) > Len(hist_table.headers)
    /\ Len(hist_out) = Len(hist_table.rows)
    /\ hist_out # <<>>

AllDigits(t) == t # <<>> /\ \A i \in DOMAIN t : IsDigit(t[i])
Chars_of == <<" ", "o", "f", " ">>

\* C10: _parse_stat_fraction gives (N, M) for "N of M", (N, N) for a bare
\* integer N, and (0, 0) for "---" and for the empty text.
C10_ParseFraction ==
    pc = "fraction_done" =>
       /\ \A k \in 1..Len(frac_text) :
             (/\ k + 5 <= Len(frac_text)
              /\ AllDigits(SubSeq(frac_text, 1, k))
              /\ SubSeq(frac_text, k + 1, k + 4) = Chars_of
              /\ AllDigits(From(frac_text, k + 5)))
                => frac_out = <<IntOf(SubSeq(frac_text, 1, k)), IntOf(From(frac_text, k + 5))>>
       /\ AllDigits(frac_text) => frac_out = <<IntOf(frac_text), IntOf(frac_text)>>
       /\ frac_text \in {<<>>, <<"-", "-", "-">>} => frac_out = <<0, 0>>

C10_Witness ==
    /\ pc = "fraction_done"
    /\ frac_text = <<"1", " ", "o", "f", " ", "2">>
    /\ frac_out = <<1, 2>>

\* the text is "N of M": digits, whitespace, "of", whitespace, digits
IsNofM(t) ==
    \E i, j \in DOMAIN t :
       /\ i < j /\ j + 2 <= Len(t)
       /\ AllDigits(SubSeq(t, 1, i))
       /\ \A k \in (i + 1)..(j - 1) : IsSpace(t[k])
       /\ i + 1 <= j - 1
       /\ t[j] = "o" /\ t[j + 1] = "f"
       /\ \E m \in (j + 3)..Len(t) :
             /\ \A k \in (j + 2)..(m - 1) : IsSpace(t[k])
             /\ AllDigits(From(t, m))

\* C11: _parse_stat_fraction returns (0, 0) for every text that is neither
\* "N of M" nor a bare integer, also when the text merely contains digits
\* (as "5/10" or "abc 7" do).
C11_MalformedGivesZero ==
    (/\ pc = "fraction_done"
     /\ ~IsNofM(Strip(frac_text))
     /\ ~AllDigits(Strip(frac_text)))
        => frac_out = <<0, 0>>

\* the positions of t where "/id/" followed by a digit begins
IdHits(t) ==
    {i \in DOMAIN t : /\ i + 4 <= Len(t)
                      /\ SubSeq(t, i, i + 3) = <<"/", "i", "d", "/">>
                      /\ IsDigit(t[i + 4])}

\* s is the digits that follow position i of t, up to the first non-digit
IsDigitsAfter(s, t, i) ==
    /\ AllDigits(s)
    /\ i + Len(s) <= Len(t)
    /\ SubSeq(t, i + 1, i + Len(s)) = s
    /\ (i + Len(s) < Len(t) => ~IsDigit(t[i + Len(s) + 1]))

\* C12: ESPN: the result is the digits of the first "/id/<digits>" of the
\* url, and empty when there is none; UFC Stats: the result is the final
\* path segment; both: empty on an empty or missing url.
C12_ExtractId ==
    LET t == id_url.text
    IN /\ pc = "espn_id_done" =>
            /\ (IdHits(t) = {} => id_out = "")
            /\ \A i \in IdHits(t) :
                  (\A j \in IdHits(t) : i <= j) =>
                     \E n \in 1..(Len(t) - i - 3) :
                        /\ IsDigitsAfter(SubSeq(t, i + 4, i + 3 + n), t, i + 3)
                        /\ id_out = ToStr(SubSeq(t, i + 4, i + 3 + n))
       /\ pc = "ufc_id_done" =>
            \E k \in 0..Len(t) :
               /\ k = 0 \/ t[k] = "/"
               /\ \A j \in (k + 1)..Len(t) : t[j] # "/"
               /\ id_out = ToStr(From(t, k + 1))
       /\ (pc \in {"espn_id_done", "ufc_id_done"} /\ (~id_url.given \/ t = <<>>))
             => id_out = ""

\* a url with two ids, the first one of two digits
C12_Witness ==
    /\ pc = "espn_id_done"
    /\ id_url.text = <<"/", "i", "d", "/", "1", "2", "/", "i", "d", "/", "2">>
    /\ id_out = "12"

\* the month abbreviations in calendar order, lower-cased
MonthAbbreviations == <<"jan", "feb", "mar", "apr", "may", "jun",
                        "jul", "aug", "sep", "oct", "nov", "dec">>

\* s is three letters, whitespace, and one or two digits: <<is, month text, day digits>>
IsMonDD(s) ==
    /\ Len(s) >= 5
    /\ \A i \in 1..3 : IsLetter(s[i])
    /\ \E k \in 4..(Len(s) - 1) :
          /\ \A i \in 4..k : IsSpace(s[i])
          /\ AllDigits(From(s, k + 1))
          /\ Len(s) - k <= 2

MonDDAt(s, k) ==
    /\ \A i \in 1..3 : IsLetter(s[i])
    /\ \A i \in 4..k : IsSpace(s[i])
    /\ IsDigit(s[k + 1])

\* the one or two digits after position k of s
DayAt(s, k) ==
    IF k + 2 <= Len(s) /\ IsDigit(s[k + 2]) THEN <<s[k + 1], s[k + 2]>> ELSE <<s[k + 1]>>

LettersOf(t) == ToStr(SelectSeq(Lower(t), IsLowerLetter))

\* C14: _normalize_header lower-cases the text, drops every character that
\* is not a letter a-z and looks the rest up: "res" and "result" give
\* "result", "decision" and "method" give "method", "rnd" and "round" give
\* "round"; any other token is returned as it is after the stripping.
C14_NormalizeHeader ==
    pc = "normalize_header_done" =>
       LET t == LettersOf(norm_text)
       IN /\ t \in {"res", "result"} => norm_out = "result"
          /\ t \in {"decision", "method"} => norm_out = "method"
          /\ t \in {"rnd", "round"} => norm_out = "round"
          /\ t \notin {"res", "result", "decision", "method", "rnd", "round"} => norm_out = t

C14_Witness ==
    /\ pc = "normalize_header_done"
    /\ norm_text = <<"R", "e", "s", ".">>
    /\ norm_out = "result"

\* w is the last word of the lower-cased, accent-stripped name n
IsLastNameOf(w, n) ==
    LET t == Lower(StripAccents(n))
    IN /\ w # <<>>
       /\ \A i \in DOMAIN w : ~IsSpace(w[i])
       /\ \E k \in DOMAIN t :
             /\ k + Len(w) - 1 <= Len(t)
             /\ SubSeq(t, k, k + Len(w) - 1) = w
             /\ k = 1 \/ IsSpace(t[k - 1])
             /\ \A j \in (k + Len(w))..Len(t) : IsSpace(t[j])

\* w occurs in the lower-cased, accent-stripped text
OccursIn(w, text) ==
    LET t == Lower(StripAccents(text))
    IN \E k \in 1..(Len(t) - Len(w) + 1) : SubSeq(t, k, k + Len(w) - 1) = w

WordsOf(n) ==
    LET t == Lower(StripAccents(n))
    IN {SubSeq(t, a, b) : a, b \in DOMAIN t}

\* C15: a fight is marked Fight of the Night exactly when it has two
\* fighter names and the last name of each, lower-cased and accent-stripped,
\* is non-empty and occurs in the lower-cased, accent-stripped text; with an
\* empty text no fight is marked.
C15_FotnMatch ==
    pc = "fotn_done" =>
       \A i \in DOMAIN card_fights :
          LET names == card_fights[i].fighter_names
          IN card_fights[i].is_fotn <=>
                /\ Len(names) = 2
                /\ fotn_txt # <<>>
                /\ \A j \in 1..2 :
                      \E w \in WordsOf(names[j]) :
                         IsLastNameOf(w, names[j]) /\ OccursIn(w, fotn_txt)

\* the text names one of the two last names only, and the other fight of
\* the card is the one that is marked
C15_Witness ==
    /\ pc = "fotn_done"
    /\ fotn_txt = <<"L", "e", "e", " ", "v", "s", " ", "R", "e">>
    /\ Len(card_fights) = 2
    /\ card_fights[1].fighter_names = <<NameAl, NameJoLee>>
    /\ ~card_fights[1].is_fotn
    /\ card_fights[2].fighter_names = <<NameARe, NameJoLee>>
    /\ card_fights[2].is_fotn

\* the header text of the table holds the four column names
ClaimPastResults(t) ==
    LET text == Lower(JoinStripped(t.headers))
    IN /\ t.hasHead
       /\ Contains(text, <<"e", "v", "e", "n", "t">>) /\ Contains(text, <<"l", "o", "c", "a", "t", "i", "o", "n">>) /\ Contains(text, <<"d", "a", "t", "e">>)
       /\ Contains(text, <<"f", "i", "g", "h", "t", " ", "o", "f", " ", "t", "h", "e", " ", "n", "i", "g", "h", "t">>) \/ Contains(text, <<"f", "o", "t", "n">>)

\* the urls of the links in the rows of table t
RowUrls(t) ==
    {ToStr(UrlJoin(t.rows[r][c].anchors[a].href)) :
        <<r, c, a>> \in {x \in (DOMAIN t.rows) \X (1..4) \X (1..1) :
                           /\ x[2] \in DOMAIN t.rows[x[1]]
                           /\ x[3] \in DOMAIN t.rows[x[1]][x[2]].anchors}}

\* C16: every event record comes from a row of a table whose header text
\* contains "event", "location" and "date" and also "fight of the night" or
\* "fotn"; a link found only in other tables gives no event record.
C16_OnlyPastResultsTables ==
    pc \in {"crawl", "crawl_done"} =>
       \A i \in DOMAIN sched_events :
          \E n \in DOMAIN sched_page :
             /\ ClaimPastResults(sched_page[n])
             /\ sched_events[i].url \in RowUrls(sched_page[n])

\* a Past Results table gave an event and the upcoming table after it gave none
C16_Witness ==
    /\ pc = "crawl"
    /\ Len(sched_page) = 2
    /\ sched_page[1].headers = SchedulePast /\ sched_page[1].hasHead
    /\ sched_page[1].rows = <<ScheduleRowUfc>>
    /\ sched_page[2].headers = ScheduleUpcoming
    /\ sched_page[2].rows = <<ScheduleRowUfc9>>
    /\ Len(sched_events) = 1
    /\ sched_events[1].id = "1"

\* the hrefs of the links in the rows of the page
PageHrefs ==
    UNION {{sched_page[n].rows[r][c].anchors[1].href :
              <<r, c>> \in {x \in (DOMAIN sched_page[n].rows) \X (1..4) :
                              /\ x[2] \in DOMAIN sched_page[n].rows[x[1]]
                              /\ sched_page[n].rows[x[1]][x[2]].anchors # <<>>}} :
           n \in DOMAIN sched_page}

\* the path segment that follows the first "/league/" of url, <<>> without one
LeagueSegment(url) ==
    LET ks == {k \in 1..(Len(url) - 7) : SubSeq(url, k, k + 7) = Chars_league}
    IN IF ks = {} THEN <<>>
       ELSE LET rest == From(url, (CHOOSE k \in ks : \A j \in ks : k <= j) + 8)
                ends == {j \in DOMAIN rest : rest[j] = "/"}
            IN IF ends = {} THEN rest
               ELSE SubSeq(rest, 1, (CHOOSE j \in ends : \A i \in ends : j <= i) - 1)

\* C17: with a non-empty allowed-league set, every event returned by
\* scrape_schedule_year and every event crawl_all goes on to process has a
\* url whose path segment after "/league/" is in the set.
C17_LeagueAllowed ==
    (pc \in {"crawl", "crawl_done"} /\ allowed_leagues # {}) =>
       \A e \in {sched_events[i] : i \in DOMAIN sched_events}
                   \cup {crawl_events[i] : i \in DOMAIN crawl_events} :
          \E href \in PageHrefs :
             /\ ToStr(UrlJoin(href)) = e.url
             /\ ToStr(LeagueSegment(UrlJoin(href))) \in allowed_leagues

\* a page with events of the allowed league, of another league and of no
\* league: only the first is returned and processed
C17_Witness ==
    /\ pc = "crawl_done"
    /\ allowed_leagues = {"ufc"}
    /\ sched_page[1].hasHead /\ sched_page[1].headers = SchedulePast
    /\ sched_page[1].rows = <<ScheduleRowPfl, ScheduleRowNoLeague>>
    /\ sched_page[2].headers = SchedulePast
    /\ Len(sched_events) = 1
    /\ Len(crawl_events) = 1
    /\ crawl_events[1].league = "ufc"

\* the cleaned texts the strategies before the slug look at, in their order:
\* the name elements of the competitor container, those of the card
\* container (for the id-to-name map only), then the link text
NameCandidates ==
    LET a == name_anchor
        raw == a.comp \o (IF pc = "name_near_done" THEN a.card ELSE <<>>) \o <<a.text>>
    IN [i \in DOMAIN raw |-> CleanText(raw[i])]

\* a candidate that is non-empty and is not the placeholder
IsRealName(c) == c # <<>> /\ ToStr(Lower(c)) \notin {"full profile", "profile"}

\* C18: the name resolved for a fighter link is the first of (1) the name
\* elements of the competitor/card container, (2) the link text that is
\* non-empty and not the placeholder "full profile" or "profile"; only when
\* none is, the name derived from the url slug is used.
C18_NameResolutionOrder ==
    pc \in {"name_local_done", "name_near_done"} =>
       LET cs == NameCandidates
           good == {i \in DOMAIN cs : IsRealName(cs[i])}
       IN /\ good # {} =>
               name_out = ToStr(cs[CHOOSE i \in good : \A j \in good : i <= j])
          /\ good = {} => name_out = SlugToName(name_anchor.href)
          /\ name_anchor.href = <<"/", "m", "m", "a", "/", "f", "i", "g", "h", "t", "e", "r", "/", "_", "/", "i", "d", "/", "3", "/", "a", "l", "-", "-", "i", "A", "/">>
               => (good = {} => name_out = "Al Ia")

\* the container holds only the placeholder and the link text is the
\* placeholder too: the slug gives the name
C18_Witness ==
    /\ pc = "name_local_done"
    /\ name_anchor.comp = <<<<>>, <<"F", "u", "l", "l", " ", "P", "r", "o", "f", "i", "l", "e">>>>
    /\ name_anchor.text = <<" ", "p", "r", "o", "f", "i", "l", "e">>
    /\ name_anchor.href = <<"/", "m", "m", "a", "/", "f", "i", "g", "h", "t", "e", "r", "/", "_", "/", "i", "d", "/", "1", "/", "j", "o", "-", "l", "e", "e">>
    /\ name_out = "Jo Lee"

\* the columns of the row whose header is "result"
ResultColumns(tds) ==
    {c \in DOMAIN tds : /\ c <= Len(HistoryHeaders(hist_table))
                        /\ HistoryHeaders(hist_table)[c] = "result"}

\* C19: in every fight-history entry the result is the token W, L, D or NC
\* when the trimmed, upper-cased text of the result cell is that token, and
\* the cleaned text of the cell otherwise.
C19_ResultCodes ==
    pc = "history_table_done" =>
       \A i \in DOMAIN hist_out :
          LET tds == EspnRowsWithCells[i]
              cols == ResultColumns(tds)
          IN IF cols = {} THEN "result" \notin DOMAIN hist_out[i]
             ELSE LET c == CHOOSE c \in cols : \A d \in cols : d <= c
                      token == ToStr(Upper(Strip(tds[c].text)))
                  IN /\ "result" \in DOMAIN hist_out[i]
                     /\ hist_out[i]["result"] =
                           IF token \in {"W", "L", "D", "NC"} THEN token
                           ELSE ToStr(CleanText(tds[c].text))

\* one row with a code in lower case and one with another result text
C19_Witness ==
    /\ pc = "history_table_done"
    /\ hist_table.rows = <<HistoryRowNc, HistoryRowDraw>>
    /\ Len(hist_out) = 2
    /\ hist_out[1]["result"] = "NC"
    /\ hist_out[2]["result"] = "D raw"

----------------------------------------------------------------------------
\* the boxes of the stats page whose cleaned, lower-cased title is s and that hold a table
ClaimTitledBoxes(s) ==
    {i \in DOMAIN stats_page : /\ stats_page[i].hasTitle
                               /\ Lower(Strip(stats_page[i].title)) = s
                               /\ stats_page[i].hasTable}
ClaimSectionTitles == {<<"s", "t", "r", "i", "k", "i", "n", "g">>, <<"c", "l", "i", "n", "c", "h">>, <<"g", "r", "o", "u", "n", "d">>}
\* every section is read from the first box that matches its title
ClaimFirstTitledBox ==
    \A s \in ClaimSectionTitles :
        stats_sections[ToStr(s)] =
            IF ClaimTitledBoxes(s) = {} THEN EmptyPayload
            ELSE ParseStatsTable(stats_page[Least(ClaimTitledBoxes(s))].table)

\* the tables of the fight page that follow a section with the words w, or, when
\* there is none, the tables whose thead holds every one of the words hs
ClaimUfcTables(w, hs) ==
    LET tables == {q \in DOMAIN ufc_doc : ufc_doc[q].kind = "table"}
        after == {q \in tables : \E p \in 1..(q - 1) :
                     ufc_doc[p].kind = "section" /\ Contains(ufc_doc[p].text, w)}
        heads == {q \in tables : ufc_doc[q].hasHead /\ \A h \in hs : Contains(ufc_doc[q].text, h)}
    IN IF after # {} THEN after ELSE heads
ClaimTotalsTables == ClaimUfcTables(<<"T", "o", "t", "a", "l", "s">>, {<<"F", "i", "g", "h", "t", "e", "r">>, <<"S", "i", "g", ".", " ", "s", "t", "r", ".">>})
ClaimSigTables == ClaimUfcTables(<<"S", "i", "g", "n", "i", "f", "i", "c", "a", "n", "t", " ", "S", "t", "r", "i", "k", "e", "s">>, {<<"H", "e", "a", "d">>, <<"B", "o", "d", "y">>, <<"L", "e", "g">>})
\* the totals are those of the first totals table, and every breakdown field is
\* that of the first significant-strikes table
ClaimFirstUfcTables ==
    LET first_totals == ClaimTotalsTables
        first_sig == ClaimSigTables
        totals == FightTotals(ufc_doc[Least(first_totals)])
        breakdown == IF first_sig = {} THEN <<>>
                     ELSE ExtractSigStrikesStats(ufc_doc[Least(first_sig)])
    IN IF first_totals = {} THEN ufc_totals = <<>>
       ELSE /\ Len(ufc_totals) = Len(totals)
            /\ \A i \in DOMAIN totals :
                  /\ \A k \in DOMAIN totals[i] :
                        (i > Len(breakdown) \/ k \notin DOMAIN breakdown[i])
                            => ufc_totals[i][k] = totals[i][k]
                  /\ i <= Len(breakdown) =>
                        \A k \in DOMAIN breakdown[i] : ufc_totals[i][k] = breakdown[i][k]

\* the tables of the history page whose thead holds one of the history words
ClaimHistoryTables ==
    {i \in DOMAIN history_page :
        /\ history_page[i].hasHead
        /\ \E k \in {<<"d", "a", "t", "e">>, <<"o", "p", "p", "o", "n", "e", "n", "t">>, <<"r", "e", "s", "u", "l", "t">>, <<"e", "v", "e", "n", "t">>} :
              Contains(Lower(Flatten(history_page[i].headers)), k)}
\* the rows of the matching tables among the first n tables, in document order
RECURSIVE ClaimHistoryRows(_)
ClaimHistoryRows(n) ==
    IF n = 0 THEN <<>>
    ELSE ClaimHistoryRows(n - 1) \o
         (IF n \in ClaimHistoryTables THEN ParseFightHistoryTable(history_page[n]) ELSE <<>>)

\* C20 as stated: when several tables or sections match a locator the first in
\* document order is used: the stats sections come from the first box with the
\* title, the fight totals and breakdown from the first matching tables, and
\* the fight history holds the rows of the first matching table only.
C20_FirstMatchOnly ==
    /\ pc = "stats_page_done" => ClaimFirstTitledBox
    /\ pc = "ufc_fight_page_done" => ClaimFirstUfcTables
    /\ pc = "history_page_done" =>
          fights = IF ClaimHistoryTables = {} THEN <<>>
                   ELSE ParseFightHistoryTable(history_page[Least(ClaimHistoryTables)])

\* C20: the stats sections come from the first box with the title and the
\* fight totals and breakdown from the first matching tables, in document
\* order; the fight history holds the rows of every matching table, one table
\* after the other in document order.
C20_FirstMatchAndAllHistoryTables ==
    /\ pc = "stats_page_done" => ClaimFirstTitledBox
    /\ pc = "ufc_fight_page_done" => ClaimFirstUfcTables
    /\ pc = "history_page_done" => fights = ClaimHistoryRows(Len(history_page))

\* a history page whose first and last tables match, with another between them
C20_Witness ==
    /\ pc = "history_page_done"
    /\ history_page = <<HistoryTableA, HistoryTableHeadless, HistoryTableB>>
    /\ Len(fights) = 3

----------------------------------------------------------------------------
\* the fields of a fight-history entry that hold the text of a cell
ClaimCellFields == {"date", "opponent", "result", "method", "round", "time", "event"}

\* C21 (fight-history rows): a cell that is empty or holds a placeholder has
\* the value null, so no cell field of an entry is the empty string or "-".
C21_PlaceholderCellsAreNull ==
    pc = "history_table_done" =>
        \A n \in DOMAIN hist_out :
            \A k \in DOMAIN hist_out[n] \cap ClaimCellFields :
                hist_out[n][k] \notin {"", "-"}

----------------------------------------------------------------------------
\* the number that the decimal digits ds write
RECURSIVE ClaimNumber(_)
ClaimNumber(ds) ==
    IF ds = <<>> THEN 0
    ELSE 10 * ClaimNumber(SubSeq(ds, 1, Len(ds) - 1))
         + (CHOOSE d \in 0..9 : ds[Len(ds)] = <<"0", "1", "2", "3", "4", "5", "6", "7", "8", "9">>[d + 1])

ClaimIsDigits(t, a, b) ==
    a <= b /\ \A k \in a..b : t[k] \in {"0", "1", "2", "3", "4", "5", "6", "7", "8", "9"}

\* the positions of a "%" that a digit precedes
ClaimPercentSigns == {h \in 2..Len(stat_text) : stat_text[h] = "%" /\ ClaimIsDigits(stat_text, h - 1, h - 1)}

\* C22: the result is the integer written by the digits that directly precede
\* the first "%" that follows a digit, and 0 when no digit is followed by "%"
\* (the empty text and "---" among them).
C22_ParsePercentage ==
    pc = "percentage_done" =>
        IF ClaimPercentSigns = {} THEN stat_out = 0
        ELSE LET h == CHOOSE x \in ClaimPercentSigns : \A y \in ClaimPercentSigns : x <= y
             IN \E a \in 1..(h - 1) :
                   /\ ClaimIsDigits(stat_text, a, h - 1)
                   /\ a = 1 \/ ~ClaimIsDigits(stat_text, a - 1, a - 1)
                   /\ stat_out = ClaimNumber(SubSeq(stat_text, a, h - 1))

\* "12%" gives 12
C22_Witness ==
    pc = "percentage_done" /\ stat_text = <<"1", "2", "%">> /\ stat_out = 12

\* C23: a text "M:S" gives 60*M + S; the empty text, "---", "0:00" and every
\* text in which no digit, ":" and digit follow one another give 0.
C23_ParseTimeControl ==
    pc = "time_control_done" =>
        /\ \A c \in 2..(Len(stat_text) - 1) :
              (/\ stat_text[c] = ":"
               /\ ClaimIsDigits(stat_text, 1, c - 1)
               /\ ClaimIsDigits(stat_text, c + 1, Len(stat_text)))
              => stat_out = 60 * ClaimNumber(SubSeq(stat_text, 1, c - 1))
                            + ClaimNumber(SubSeq(stat_text, c + 1, Len(stat_text)))
        /\ (\A c \in 2..(Len(stat_text) - 1) :
               ~(/\ stat_text[c] = ":"
                 /\ ClaimIsDigits(stat_text, c - 1, c - 1)
                 /\ ClaimIsDigits(stat_text, c + 1, c + 1)))
              => stat_out = 0
        /\ stat_text \in {<<>>, <<"-", "-", "-">>, <<"0", ":", "0", "0">>} => stat_out = 0

\* "12:01" gives 721
C23_Witness ==
    pc = "time_control_done" /\ stat_text = <<"1", "2", ":", "0", "1">> /\ stat_out = 721

----------------------------------------------------------------------------
\* the entries of the failed lists recorded for url
ClaimFailedEntries(url) ==
    {ledger.failed_events[i] : i \in {j \in DOMAIN ledger.failed_events :
                                         ledger.failed_events[j].url = url}}
    \cup {ledger.failed_fighters[i] : i \in {j \in DOMAIN ledger.failed_fighters :
                                                ledger.failed_fighters[j].url = url}}

\* C24: the attempts counter of an event url or fighter url never exceeds 3,
\* and no step of crawl_all or retry_failed_items scrapes a url whose counter
\* has reached 3.
C24_BoundedRetries ==
    [][/\ \A i \in DOMAIN ledger.failed_events' : ledger.failed_events'[i].attempts <= 3
       /\ \A i \in DOMAIN ledger.failed_fighters' : ledger.failed_fighters'[i].attempts <= 3
       /\ crawl'.scraping.kind \in {"event", "fighter"} =>
             \A e \in ClaimFailedEntries(crawl'.scraping.url) : e.attempts < 3]_vars

\* crawl_all has just skipped an event whose counter is 3
C24_Witness ==
    /\ crawl.scraping.kind = "event_skipped"
    /\ crawl.scraping.url \notin ledger.completed_events
    /\ \E e \in ClaimFailedEntries(crawl.scraping.url) : e.attempts = 3

\* C26: when every page fetch of a fighter fails in crawl_all, the url is
\* recorded in failed_fighters, is not added to completed_fighters, and no
\* line is appended to fighters.jsonl.
C26_AllFetchesFailedIsFailure ==
    [][(/\ pc = "crawl_fighters"
        /\ crawl'.scraping.kind = "fighter"
        /\ crawl'.scraping.fetched = {})
       => /\ \E i \in DOMAIN ledger.failed_fighters' :
                ledger.failed_fighters'[i].url = crawl'.scraping.url
          /\ crawl'.scraping.url \notin ledger.completed_fighters'
          /\ jsonl'.fighters = jsonl.fighters]_vars

\* C27: an event url is appended to events.jsonl at most once over all runs of
\* crawl_all and retry_failed_items, and a url in completed_events is never
\* scraped again.
C27_CompletedEventNotScrapedAgain ==
    [][/\ \A u \in DOMAIN jsonl'.events : jsonl'.events[u] <= 1
       /\ crawl'.scraping.kind = "event" =>
             crawl'.scraping.url \notin ledger.completed_events]_vars

----------------------------------------------------------------------------
\* no id occurs twice in a file
ClaimNoRepeat(file) == \A i, j \in DOMAIN file : file[i] = file[j] => i = j

\* C25: within one run of the UFC Stats crawl_all, fighters.jsonl, fights.jsonl
\* and events.jsonl each hold at most one record per id.
C25_OneRecordPerId ==
    /\ ClaimNoRepeat(ufc_jsonl.fighters)
    /\ ClaimNoRepeat(ufc_jsonl.fights)
    /\ ClaimNoRepeat(ufc_jsonl.events)

\* the run is over: two listed fighter urls have the id "a", which was written
\* once, and a fight and an event were written as well
C25_Witness ==
    /\ pc = "ufc_crawl_done"
    /\ ufc_crawl.listing = <<<<"/", "f", "/", "a">>, <<"/", "g", "/", "a">>>>
    /\ ufc_jsonl.fighters = <<"a">>
    /\ ufc_jsonl.fights # <<>> /\ ufc_jsonl.events # <<>>

----------------------------------------------------------------------------
\* at most max_retries GETs are issued; a document is returned exactly when the
\* last GET succeeded, which is then the first that did; None is returned when
\* every GET failed
ClaimGetPageSafe ==
    LET gets == page_call.gets
    IN /\ Len(gets) <= page_call.max_retries
       /\ \A i \in 1..(Len(gets) - 1) : gets[i] \in {"request_error", "rate_limit"}
       /\ pc = "get_page_done" =>
             /\ page_result \in {"document", "None"}
             /\ page_result = "document" <=> (gets # <<>> /\ gets[Len(gets)] = "ok")
             /\ page_result = "None" =>
                   \/ Len(gets) = page_call.max_retries
                   \/ gets[Len(gets)] = "unexpected"
       /\ pc # "get_page_done" => page_result = "pending"

\* C28: one call of _get_page issues at most max_retries GETs, returns the
\* document of the first GET that succeeds and None when every attempt fails
\* or an unexpected error occurs, and always terminates.
C28_GetPageTerminates == []ClaimGetPageSafe /\ <>(pc = "get_page_done")

\* a rate limit and an error, then the third of three attempts succeeds
C28_Witness ==
    /\ pc = "get_page_done"
    /\ page_call.max_retries = 3
    /\ page_call.gets = <<"rate_limit", "request_error", "ok">>
    /\ page_result = "document"

----------------------------------------------------------------------------
ClaimUrlId(url) == ToStr(ExtractIdFromUrl(url))
ClaimRawSet == {raw_urls[i] : i \in DOMAIN raw_urls}
ClaimKeptSet == {event_fighter_urls[i] : i \in DOMAIN event_fighter_urls}
\* the url goes on after "/id/<id>/" with a name
ClaimIsNameSlugUrl(url) ==
    \E k \in DOMAIN url :
        /\ k + 5 <= Len(url)
        /\ SubSeq(url, k, k + 3) = <<"/", "i", "d", "/">>
        /\ \E n \in (k + 4)..(Len(url) - 2) :
              /\ \A j \in (k + 4)..n : url[j] \in {"0", "1", "2", "3", "4", "5", "6", "7", "8", "9"}
              /\ url[n + 1] = "/"
              /\ url[n + 2] # "/"

\* C29: fighter_urls holds exactly one of the raw urls per fighter id found
\* among them, and a url with a name whenever the raw urls hold one for the
\* id, in whatever order the raw urls are visited.
C29_OneUrlPerFighterPreferSlug ==
    pc = "fighter_urls_done" =>
        /\ ClaimKeptSet \subseteq ClaimRawSet
        /\ \A i, j \in DOMAIN event_fighter_urls :
              ClaimUrlId(event_fighter_urls[i]) = ClaimUrlId(event_fighter_urls[j]) => i = j
        /\ {ClaimUrlId(u) : u \in ClaimKeptSet} = {ClaimUrlId(u) : u \in ClaimRawSet} \ {""}
        /\ \A u \in ClaimRawSet :
              ClaimIsNameSlugUrl(u) =>
                 \E v \in ClaimKeptSet : ClaimUrlId(v) = ClaimUrlId(u) /\ ClaimIsNameSlugUrl(v)

\* the url with the name is visited first, then two urls of the same fighter
\* without a name; only the first is kept
C29_Witness ==
    /\ pc = "fighter_urls_done"
    /\ raw_urls = <<BaseUrl \o <<"/", "m", "m", "a", "/", "f", "i", "g", "h", "t", "e", "r", "/", "_", "/", "i", "d", "/", "1", "/", "a", "l">>, BaseUrl \o <<"/", "m", "m", "a", "/", "f", "i", "g", "h", "t", "e", "r", "/", "_", "/", "i", "d", "/", "1", "/">>,
                    BaseUrl \o <<"/", "m", "m", "a", "/", "f", "i", "g", "h", "t", "e", "r", "/", "_", "/", "i", "d", "/", "1">>>>
    /\ event_fighter_urls = <<BaseUrl \o <<"/", "m", "m", "a", "/", "f", "i", "g", "h", "t", "e", "r", "/", "_", "/", "i", "d", "/", "1", "/", "a", "l">>>>

----------------------------------------------------------------------------
ClaimGeneralFields ==
    {"id", "name", "kd", "sig_str_landed", "sig_str_attempted", "sig_str_pct",
     "total_str_landed", "total_str_attempted", "td_landed", "td_attempted", "td_pct",
     "sub_att", "rev", "control_time"}
\* the breakdown table of the page has a header of round rn, and the first
\* row after it, before any other header, has a link that ends in fid
ClaimBreakdownRowFor(rn, fid) ==
    \E p \in DOMAIN round_page :
        /\ round_page[p].hasTable
        /\ \E h, q \in DOMAIN round_page[p].body :
              LET body == round_page[p].body
              IN /\ h < q
                 /\ body[h].kind = "thead"
                 /\ Strip(body[h].th) \in {<<"R", "o", "u", "n", "d", " ">> \o <<ToString(rn)>>, <<"R", "o", "u", "n", "d", " ", " ">> \o <<ToString(rn)>>}
                 /\ body[q].hasRow
                 /\ \A m \in (h + 1)..(q - 1) : ~body[m].hasRow /\ body[m].kind # "thead"
                 /\ \E i \in DOMAIN body[q].names :
                       /\ Len(body[q].names[i].href) >= Len(fid) + 1
                       /\ ToStr(SubSeq(body[q].names[i].href,
                                       Len(body[q].names[i].href) - Len(fid) + 1,
                                       Len(body[q].names[i].href))) = fid
                       /\ body[q].names[i].href[Len(body[q].names[i].href) - Len(fid)] = "/"

\* C30: the rounds come back in the same number and order; a fighter record
\* of round r gets new fields only when the breakdown table has a row for
\* round r with a fighter of the same id; id, name and the general fields of
\* every fighter record stay as they were.
C30_MergeKeepsGeneralStats ==
    pc = "sig_rounds_done" =>
        /\ Len(rounds_out) = Len(existing_rounds)
        /\ \A r \in DOMAIN existing_rounds :
              /\ rounds_out[r].round_number = existing_rounds[r].round_number
              /\ Len(rounds_out[r].fighters) = Len(existing_rounds[r].fighters)
              /\ \A i \in DOMAIN existing_rounds[r].fighters :
                    LET was == existing_rounds[r].fighters[i]
                        now == rounds_out[r].fighters[i]
                    IN /\ DOMAIN was \subseteq DOMAIN now
                       /\ \A k \in DOMAIN was \cap ClaimGeneralFields : now[k] = was[k]
                       /\ (DOMAIN now \ ClaimGeneralFields) # (DOMAIN was \ ClaimGeneralFields)
                             => ClaimBreakdownRowFor(existing_rounds[r].round_number, was.id)

\* the breakdown table has a row for round 1 only, with the fighters in the
\* other order and under longer names: the records of round 1 get the
\* breakdown of their own fighter, the records of round 2 get nothing
C30_Witness ==
    /\ pc = "sig_rounds_done"
    /\ Len(existing_rounds) = 2
    /\ existing_rounds[1].round_number = 1
    /\ existing_rounds[2].round_number = 2
    /\ Len(round_page) = 2
    /\ round_page[2].body = <<RoundHeader(<<"R", "o", "u", "n", "d", " ", "1">>),
                              RoundBody(<<FighterLinkBRound, FighterLinkARound>>, UfcSigTable.cols)>>
    /\ rounds_out[1].fighters[1].name = "Al"
    /\ "head_landed" \in DOMAIN rounds_out[1].fighters[1]
    /\ rounds_out[1].fighters[1].head_landed = 1
    /\ rounds_out[1].fighters[2].head_landed = 2
    /\ rounds_out[2] = existing_rounds[2]

====
